---- MODULE Spec2Model ----
(***************************************************************************)
(* The workflow run engine of Loki-Backend (package engine), the run and   *)
(* node-run-log repositories it writes through, and the executors it       *)
(* dispatches to.  One workflow run is modelled: the handler creates the   *)
(* run row and the engine, Execute walks the graph.                        *)
(***************************************************************************)
EXTENDS Integers, Sequences, FiniteSets, TLC

VARIABLES
    Nodes,        \* WorkflowEngine.Nodes: node id -> node data
    Edges,        \* WorkflowEngine.Edges: the edge list, in order
    nodeOutputs,  \* WorkflowEngine.nodeOutputs: node id -> output map
    pc,           \* where Execute stands
    queue,        \* Execute's work list
    visited,      \* Execute's visited set
    cur,          \* the node whose executor is being invoked (a sequence of 0 or 1 ids)
    curLog,       \* logEntry.ID of the node being processed (index into logs)
    err,          \* the error processNode / Execute is about to return ("" is nil)
    ret,          \* what Execute returned: "running" until it returns, "" for nil
    ctxDone,      \* the context passed to Execute has been cancelled
    timerFired,   \* time.After(duration) of the wait executor in flight has fired
    faulty,       \* repository calls may return an error in this run
    run,          \* the workflow_runs rows, in insertion order
    logs,         \* the node_run_logs rows, in insertion order
    now,          \* the database clock, NOW()
    apiCalls,     \* number of calls made to the run-status and log endpoints
    runWrites,    \* observation: statuses the engine wrote to the run row, in order
    inputs,       \* observation: node id -> inputsFromUpstream handed to its executor
    results,      \* observation: node id -> what its executor returned
    calls,        \* observation: the repository calls the engine issued, in order
    RunID,        \* WorkflowEngine.RunID: the run row this engine drives (index into run)
    peer,         \* the engine of another run while this one is stepping (0 or 1 engines)
    workflow_nodes,  \* the rows of table workflow_nodes the node endpoints wrote: id -> row
    workflow_edges,  \* the rows of table workflow_edges the edge endpoints wrote: id -> row
    cancelledFirst   \* observation: the context was cancelled while the wait timer had not fired

vars == << Nodes, Edges, nodeOutputs, pc, queue, visited, cur, curLog, err, ret,
           ctxDone, timerFired, faulty, run, logs, now, apiCalls, runWrites, inputs,
           results, calls, RunID, peer, workflow_nodes, workflow_edges, cancelledFirst >>

----------------------------------------------------------------------------
(* Values *)

\* A nil *time.Time / SQL NULL is the empty sequence, a time t is <<t>>.
NULL == << >>

\* A node whose data map has no string "type".
NoType == "<no type>"

EmptyMap == [k \in {} |-> ""]

RunTerminal == {"completed", "failed", "cancelled"}
RunStatuses == {"pending", "running"} \cup RunTerminal

LogTerminal == {"completed", "failed", "skipped"}
LogStatuses == {"pending", "running"} \cup LogTerminal

\* The type keys the registry knows.
KnownTypes ==
    { "http_request", "shell_command", "condition", "loop", "webhook", "cron",
      "wait", "merge", "set_data", "code_js", "log", "file_read", "file_write",
      "db_postgres", "db_mysql", "email_smtp", "slack", "mq_rabbitmq_publish" }

\* NewNodeExecutor: "" when the type key has an executor, else the error text.
NewNodeExecutor(typeKey) ==
    IF typeKey \in KnownTypes THEN "" ELSE "unknown node type"

\* A value routed over an edge: one entry of the upstream output map, or the
\* whole upstream output map.
Entry(v) == [whole |-> FALSE, value |-> v, map |-> EmptyMap]
Whole(m) == [whole |-> TRUE, value |-> "", map |-> m]

----------------------------------------------------------------------------
(* Executors: the results one call can return.  err = "" is a nil error. *)

Result(status, handle, output, e) ==
    [status |-> status, handle |-> handle, output |-> output, err |-> e]

\* json.Unmarshal(rawData, &data) returns an error when a key of the node data
\* holds a JSON value of another type than the struct field it is read into.
UnmarshalFails(data) == "mistyped" \in DOMAIN data /\ data.mistyped

\* A string field of the parsed struct: "" when the node data has no such key.
Field(data, name) == IF name \in DOMAIN data THEN data[name] ELSE ""

\* What every executor returns when json.Unmarshal fails.
ParseFailure ==
    Result("failed", "", [error |-> "cannot unmarshal"], "cannot unmarshal")

\* What the world outside does when an executor calls it.  Node data can fix
\* the outcome (key "external"); otherwise either can happen.
External == { "succeeds", "fails" }
ExternalOf(data) == IF "external" \in DOMAIN data THEN { data.external } ELSE External

\* SetDataNode.Execute emits an empty map (SetDataExecute without the data).
SetDataExecuteEmpty(data) ==
    IF UnmarshalFails(data) THEN { ParseFailure }
    ELSE { Result("completed", "output", EmptyMap, "") }

\* SetDataNode.Execute: emits the node's own `data` on "output".
SetDataExecute(data) ==
    IF UnmarshalFails(data) THEN { ParseFailure }
    ELSE { Result("completed", "output", data.data, "") }

\* HttpRequestNode.Execute: an empty url is an error; a transport failure is a
\* soft failure on output_error; any response is output_success.
HttpRequestExecute(data, external) ==
    IF UnmarshalFails(data) THEN { ParseFailure }
    ELSE IF Field(data, "url") = ""
    THEN { Result("failed", "", [error |-> "URL is required"], "URL is required") }
    ELSE IF external = "fails"
    THEN { Result("failed", "output_error", [error |-> "transport"], "") }
    ELSE { Result("completed", "output_success", [status |-> "200", body |-> "ok"], "") }

\* WaitNode.Execute: select between the timer and ctx.Done(); when both are
\* ready select takes either.
WaitExecute(data, done, fired) ==
    IF UnmarshalFails(data) THEN { ParseFailure }
    ELSE
    (IF fired THEN { Result("completed", "output", [waited |-> "true"], "") } ELSE {})
    \cup
    (IF done THEN { Result("cancelled", "", [error |-> "cancelled"], "context canceled") }
     ELSE {})

\* ShellCommandNode.Execute: an empty command is an error; a command that
\* cannot be started or exits non-zero is a soft failure.
ShellCommandExecute(data, external) ==
    IF UnmarshalFails(data) THEN { ParseFailure }
    ELSE IF Field(data, "command") = ""
    THEN { Result("failed", "", [error |-> "command is required"], "command is required") }
    ELSE IF external = "fails"
    THEN { Result("failed", "output_error", [error |-> "exit status 1"], "") }
    ELSE { Result("completed", "output_success", [output |-> "out"], "") }

\* CodeJsNode.Execute: an error of vm.RunString is a soft failure.
CodeJsExecute(data, external) ==
    IF UnmarshalFails(data) THEN { ParseFailure }
    ELSE IF external = "fails"
    THEN { Result("failed", "output_error", [error |-> "ReferenceError"], "") }
    ELSE { Result("completed", "output_success", [result |-> "value"], "") }

\* FileReadNode.Execute: an empty path is an error; os.ReadFile failing is a
\* soft failure.
FileReadExecute(data, external) ==
    IF UnmarshalFails(data) THEN { ParseFailure }
    ELSE IF Field(data, "path") = ""
    THEN { Result("failed", "", [error |-> "path is required"], "path is required") }
    ELSE IF external = "fails"
    THEN { Result("failed", "output_error", [error |-> "no such file"], "") }
    ELSE { Result("completed", "output_success", [content |-> "text"], "") }

\* FileWriteNode.Execute: an empty path is an error; MkdirAll, OpenFile or
\* WriteString failing is a soft failure.
FileWriteExecute(data, external) ==
    IF UnmarshalFails(data) THEN { ParseFailure }
    ELSE IF Field(data, "path") = ""
    THEN { Result("failed", "", [error |-> "path is required"], "path is required") }
    ELSE IF external = "fails"
    THEN { Result("failed", "output_error", [error |-> "permission denied"], "") }
    ELSE { Result("completed", "output_success", [bytes_written |-> "4"], "") }

\* The database/sql drivers the program's imports register.
SqlDrivers == { "pgx" }

\* DbPostgresNode.Execute and DbMysqlNode.Execute: sql.Open failing (the
\* driver name is not registered) is an error; the query failing is a soft
\* failure.
DbExecute(data, driverName, external) ==
    IF UnmarshalFails(data) THEN { ParseFailure }
    ELSE IF driverName \notin SqlDrivers
    THEN { Result("failed", "", [error |-> "unknown driver"], "unknown driver") }
    ELSE IF external = "fails"
    THEN { Result("failed", "output_error", [error |-> "connection refused"], "") }
    ELSE { Result("completed", "output_success", [rows |-> "rows"], "") }

DbPostgresExecute(data, external) == DbExecute(data, "pgx", external)
DbMysqlExecute(data, external) == DbExecute(data, "mysql", external)

\* EmailSmtpNode.Execute: smtp.SendMail failing is a soft failure.
EmailSmtpExecute(data, external) ==
    IF UnmarshalFails(data) THEN { ParseFailure }
    ELSE IF external = "fails"
    THEN { Result("failed", "output_error", [error |-> "dial tcp"], "") }
    ELSE { Result("completed", "output_success", [sent |-> "true"], "") }

\* SlackNode.Execute: an empty webhook_url is an error; a transport error or
\* a response status of 400 and above is a soft failure.
SlackExecute(data, external) ==
    IF UnmarshalFails(data) THEN { ParseFailure }
    ELSE IF Field(data, "webhook_url") = ""
    THEN { Result("failed", "", [error |-> "Webhook URL is required"],
                  "webhook URL is required") }
    ELSE IF external = "fails"
    THEN { Result("failed", "output_error", [error |-> "slack api error"], "") }
    ELSE { Result("completed", "output_success", [status |-> "200"], "") }

\* MqRabbitmqPublishNode.Execute: parses its input and reports success; it
\* calls nothing outside the process.
MqRabbitmqPublishExecute(data) ==
    IF UnmarshalFails(data) THEN { ParseFailure }
    ELSE { Result("completed", "output_success", [published |-> "true"], "") }

\* toSlice on the `items` of the node data: no items at all is the empty
\* slice, an array (or a string holding the JSON text of one) is its elements,
\* anything else is an error.  The items are written as their JSON text.
toSlice(v) ==
    CASE v = ""        -> [ok |-> TRUE, items |-> << >>]
      [] v = "[]"      -> [ok |-> TRUE, items |-> << >>]
      [] v = "[1]"     -> [ok |-> TRUE, items |-> << 1 >>]
      [] v = "[1,2,3]" -> [ok |-> TRUE, items |-> << 1, 2, 3 >>]
      [] OTHER         -> [ok |-> FALSE, items |-> << >>]

\* LoopNode.Execute triggers output_done when there are no items (LoopExecute
\* with a second handle).
LoopExecuteDone(data) ==
    IF UnmarshalFails(data) THEN { ParseFailure }
    ELSE IF ~toSlice(Field(data, "items")).ok
    THEN { Result("failed", "", [error |-> "input is not a slice or valid JSON array"],
                  "input is not a slice or valid JSON array") }
    ELSE { Result("completed",
                  IF toSlice(Field(data, "items")).items = << >>
                  THEN "output_done" ELSE "output_item",
                  [items |-> toSlice(Field(data, "items")).items], "") }

\* LoopNode.Execute: items that toSlice cannot convert are an error;
\* otherwise all the items go out in one result on output_item.
LoopExecute(data) ==
    IF UnmarshalFails(data) THEN { ParseFailure }
    ELSE IF ~toSlice(Field(data, "items")).ok
    THEN { Result("failed", "", [error |-> "input is not a slice or valid JSON array"],
                  "input is not a slice or valid JSON array") }
    ELSE { Result("completed", "output_item",
                  [items |-> toSlice(Field(data, "items")).items], "") }

\* WebhookNode.Execute and CronNode.Execute: never parse, always complete.
WebhookExecute == { Result("completed", "output", [payload |-> "raw"], "") }
CronExecute == { Result("completed", "output", [triggered_at |-> "now"], "") }

\* A JSON value of a condition's operand as json.Unmarshal yields it: a number
\* (float64) or a string (its code points).
Num(n) == [kind |-> "number", n |-> n, s |-> << >>]
Str(s) == [kind |-> "string", n |-> 0, s |-> s]

\* The other JSON values: true and false, null, the empty object (a Go map)
\* and the empty array (a Go slice).
Bool(b) == [kind |-> "bool", n |-> IF b THEN 1 ELSE 0, s |-> << >>]
Null == [kind |-> "null", n |-> 0, s |-> << >>]
EmptyObject == [kind |-> "object", n |-> 0, s |-> << >>]
EmptyArray == [kind |-> "array", n |-> 0, s |-> << >>]

\* toFloat: the operand is a number.
toFloat(v) == v.kind = "number"

\* The decimal digits of a natural number, as code points.
RECURSIVE Digits(_)
Digits(n) == IF n < 10 THEN << 48 + n >> ELSE Digits(n \div 10) \o << 48 + (n % 10) >>

\* fmt.Sprintf("%v", v) of an operand: an integral number prints its digits,
\* a bool true or false, nil <nil>, an empty map map[] and an empty slice [].
Sprintf(v) ==
    CASE v.kind = "number" -> (IF v.n < 0 THEN << 45 >> \o Digits(-v.n) ELSE Digits(v.n))
      [] v.kind = "bool"   -> (IF v.n = 1 THEN << 116, 114, 117, 101 >>
                               ELSE << 102, 97, 108, 115, 101 >>)
      [] v.kind = "null"   -> << 60, 110, 105, 108, 62 >>
      [] v.kind = "object" -> << 109, 97, 112, 91, 93 >>
      [] v.kind = "array"  -> << 91, 93 >>
      [] OTHER             -> v.s

\* Go's comparison of two strings: 1, -1 or 0.
RECURSIVE StringCompare(_, _)
StringCompare(a, b) ==
    IF a = << >> /\ b = << >> THEN 0
    ELSE IF a = << >> THEN -1
    ELSE IF b = << >> THEN 1
    ELSE IF Head(a) > Head(b) THEN 1
    ELSE IF Head(a) < Head(b) THEN -1
    ELSE StringCompare(Tail(a), Tail(b))

\* compare: numeric when both operands are numbers, else on their string forms.
compare(v1, v2) ==
    IF toFloat(v1) /\ toFloat(v2)
    THEN (IF v1.n > v2.n THEN 1 ELSE IF v1.n < v2.n THEN -1 ELSE 0)
    ELSE StringCompare(Sprintf(v1), Sprintf(v2))

\* The operator switch with ">=" evaluated as ">" (ConditionResult without
\* the equal case of ">=").
ConditionResultStrict(v1, operator, v2) ==
    CASE operator = "==" -> v1 = v2
      [] operator = "!=" -> v1 # v2
      [] operator = ">"  -> compare(v1, v2) > 0
      [] operator = "<"  -> compare(v1, v2) < 0
      [] operator = ">=" -> compare(v1, v2) > 0
      [] operator = "<=" -> compare(v1, v2) <= 0

\* The operator switch of ConditionNode.Execute; the operator is a known one.
ConditionResult(v1, operator, v2) ==
    CASE operator = "==" -> v1 = v2
      [] operator = "!=" -> v1 # v2
      [] operator = ">"  -> compare(v1, v2) > 0
      [] operator = "<"  -> compare(v1, v2) < 0
      [] operator = ">=" -> compare(v1, v2) >= 0
      [] operator = "<=" -> compare(v1, v2) <= 0

ConditionOperators == { "==", "!=", ">", "<", ">=", "<=" }

\* Go's == and != on two interface values panic when both hold a value of the
\* same type and that type is a map or a slice.
ComparisonPanics(v1, operator, v2) ==
    /\ operator \in { "==", "!=" }
    /\ v1.kind = v2.kind
    /\ v1.kind \in { "object", "array" }

\* The executor does not return: the goroutine panics.
Panic ==
    Result("panic", "", [error |-> "comparing uncomparable type"],
           "runtime error: comparing uncomparable type")

\* ConditionNode.Execute triggers the other handle (ConditionExecute with the
\* handles exchanged).
ConditionExecuteExchanged(data) ==
    IF UnmarshalFails(data) THEN { ParseFailure }
    ELSE IF data.operator \notin ConditionOperators
    THEN { Result("failed", "", [error |-> "Unknown operator"], "unknown operator") }
    ELSE IF ComparisonPanics(data.value1, data.operator, data.value2) THEN { Panic }
    ELSE { Result("completed",
                  IF ConditionResult(data.value1, data.operator, data.value2)
                  THEN "output_false" ELSE "output_true",
                  [result |-> ConditionResult(data.value1, data.operator, data.value2)], "") }

\* ConditionNode.Execute: an unknown operator is an error; otherwise
\* output_true or output_false by the result.
ConditionExecute(data) ==
    IF UnmarshalFails(data) THEN { ParseFailure }
    ELSE IF data.operator \notin ConditionOperators
    THEN { Result("failed", "", [error |-> "Unknown operator"], "unknown operator") }
    ELSE IF ComparisonPanics(data.value1, data.operator, data.value2) THEN { Panic }
    ELSE { Result("completed",
                  IF ConditionResult(data.value1, data.operator, data.value2)
                  THEN "output_true" ELSE "output_false",
                  [result |-> ConditionResult(data.value1, data.operator, data.value2)], "") }

\* LogNode.Execute and MergeNode.Execute: always complete on "output".
LogExecute(data) ==
    IF UnmarshalFails(data) THEN { ParseFailure }
    ELSE { Result("completed", "output", [logged |-> "true"], "") }
MergeExecute == { Result("completed", "output", [merged |-> "true"], "") }

\* What executor.Execute(ctx, jsonData) can return for a node of this data.
ExecutorExecute(data, done, fired) ==
    UNION { CASE data.type = "set_data"      -> SetDataExecute(data)
              [] data.type = "http_request"  -> HttpRequestExecute(data, external)
              [] data.type = "wait"          -> WaitExecute(data, done, fired)
              [] data.type = "log"           -> LogExecute(data)
              [] data.type = "merge"         -> MergeExecute
              [] data.type = "condition"     -> ConditionExecute(data)
              [] data.type = "shell_command" -> ShellCommandExecute(data, external)
              [] data.type = "code_js"       -> CodeJsExecute(data, external)
              [] data.type = "file_read"     -> FileReadExecute(data, external)
              [] data.type = "file_write"    -> FileWriteExecute(data, external)
              [] data.type = "db_postgres"   -> DbPostgresExecute(data, external)
              [] data.type = "db_mysql"      -> DbMysqlExecute(data, external)
              [] data.type = "email_smtp"    -> EmailSmtpExecute(data, external)
              [] data.type = "slack"         -> SlackExecute(data, external)
              [] data.type = "mq_rabbitmq_publish" -> MqRabbitmqPublishExecute(data)
              [] data.type = "loop"          -> LoopExecute(data)
              [] data.type = "webhook"       -> WebhookExecute
              [] data.type = "cron"          -> CronExecute
              [] OTHER                       -> {} :
            external \in ExternalOf(data) }

----------------------------------------------------------------------------
(* Graph helpers of the engine *)

RECURSIVE SeqToSet(_)
SeqToSet(s) == IF s = << >> THEN {} ELSE {Head(s)} \cup SeqToSet(Tail(s))

\* The orders in which a Go map range can yield the ids of S.
Orders(S) ==
    { s \in [1..Cardinality(S) -> S] : \A i, j \in 1..Cardinality(S) : i # j => s[i] # s[j] }

\* Every node of the map seeds the queue (findStartNodes without the incoming-edge filter).
findStartNodesAll == DOMAIN Nodes

\* findStartNodes: the nodes of the map that no edge targets (as a set; the
\* map range yields them in any order).
findStartNodes ==
    { id \in DOMAIN Nodes : \A i \in DOMAIN Edges : Edges[i].target # id }

\* findNextNodes follows every edge when the handle is empty (findNextNodes without the handle filter).
findNextNodesAnyHandle(nodeID, triggeredHandle) ==
    LET out == SelectSeq(Edges, LAMBDA e : e.source = nodeID)
    IN  [i \in DOMAIN out |-> out[i].target]

\* findNextNodes: targets of the outgoing edges of nodeID, in edge order; with
\* a non-empty handle only the edges on that source handle.
findNextNodes(nodeID, triggeredHandle) ==
    LET out == SelectSeq(Edges, LAMBDA e :
                   /\ e.source = nodeID
                   /\ ~(triggeredHandle # "" /\ e.source_handle # triggeredHandle))
    IN  [i \in DOMAIN out |-> out[i].target]

\* Only the first edge that targets nodeID (getIncomingEdges stopping at the
\* first match).
getIncomingEdgesFirst(nodeID) ==
    LET all == SelectSeq(Edges, LAMBDA e : e.target = nodeID)
    IN  IF all = << >> THEN << >> ELSE << Head(all) >>

\* getIncomingEdges: the edges that target nodeID, in edge order.
getIncomingEdges(nodeID) == SelectSeq(Edges, LAMBDA e : e.target = nodeID)

\* Every edge routes the whole upstream output map (RoutedValue without the handle lookup).
RoutedValueWhole(edge, sourceOutput) == Whole(sourceOutput)

\* The value one incoming edge routes, given its source's output map.
RoutedValue(edge, sourceOutput) ==
    IF edge.source_handle \in DOMAIN sourceOutput
    THEN Entry(sourceOutput[edge.source_handle])
    ELSE Whole(sourceOutput)

\* The loop of processNode over incomingEdges: later edges overwrite earlier
\* ones on the same target handle.
RECURSIVE inputsFromUpstream(_, _, _)
inputsFromUpstream(incoming, outputs, acc) ==
    IF incoming = << >> THEN acc
    ELSE LET edge == Head(incoming)
             acc2 == IF edge.source \in DOMAIN outputs
                     THEN [h \in DOMAIN acc \cup {edge.target_handle} |->
                              IF h = edge.target_handle
                              THEN RoutedValue(edge, outputs[edge.source])
                              ELSE acc[h]]
                     ELSE acc
         IN  inputsFromUpstream(Tail(incoming), outputs, acc2)

----------------------------------------------------------------------------
(* Repositories *)

\* The outcomes of one repository call: TRUE is success.
RepoOutcomes == IF faulty THEN BOOLEAN ELSE {TRUE}

\* WorkflowRunRepository.Create: the row is inserted as running, finished_at NULL.
RunRepoCreate == [status |-> "running", finished_at |-> NULL]

\* WorkflowRunRepository.UpdateStatus: SET status = $1, finished_at = $2.
RunRepoUpdateStatus(row, status, finishedAt) ==
    [row EXCEPT !.status = status, !.finished_at = finishedAt]

\* NodeRunLogRepository.Create: INSERT with the requested status; finished_at
\* is not among the inserted columns.  createdAs and updates are observations.
LogRepoCreate(runID, nodeID, status, t) ==
    [ run_id |-> runID, node_id |-> nodeID, status |-> status, log_output |-> "", error_msg |-> "",
      started_at |-> t, finished_at |-> NULL, createdAs |-> status, updates |-> 0 ]

\* NodeRunLogRepository.Update: COALESCE(NULLIF($n, ''), column) per column;
\* finished_at is stamped when $1 is terminal and finished_at IS NULL.
LogRepoUpdate(row, status, output, errorMsg, t) ==
    [ row EXCEPT
        !.status      = IF status = "" THEN @ ELSE status,
        !.log_output  = IF output = "" THEN @ ELSE output,
        !.error_msg   = IF errorMsg = "" THEN @ ELSE errorMsg,
        !.finished_at = IF status \in LogTerminal /\ @ = NULL THEN <<t>> ELSE @,
        !.updates     = @ + 1 ]

\* One repository call of the engine: the method, the node it concerns (0 for
\* a call on the run), the status passed, and whether the call succeeded.
Call(op, nodeID, status, ok) == [op |-> op, node |-> nodeID, status |-> status, ok |-> ok]

\* WorkflowEngine.updateLog on the row logID; ok is the repository's outcome.
updateLog(lg, logID, status, output, errorMsg, t, ok) ==
    IF ok THEN [lg EXCEPT ![logID] = LogRepoUpdate(@, status, output, errorMsg, t)]
    ELSE lg

----------------------------------------------------------------------------
(* The workflows the model runs *)

DataA == [output |-> "a"]
DataB == [foo |-> "bar"]

NodeData(type, data, url) == [type |-> type, data |-> data, url |-> url]

\* The node data a node of a modelled workflow can carry.
NodeConfigs ==
    { NodeData("set_data", DataA, ""),
      NodeData("set_data", DataB, ""),
      NodeData("http_request", EmptyMap, "http://host"),
      NodeData("http_request", EmptyMap, ""),
      NodeData("wait", EmptyMap, ""),
      NodeData("not_a_real_type", EmptyMap, ""),
      NodeData(NoType, EmptyMap, "") }

\* The (source handle, target handle) pairs an edge can carry.
EdgeHandles ==
    { <<"output", "input">>, <<"output_success", "input">>,
      <<"output_error", "input">>, <<"output", "input_1">> }

Topology(ids, pairs, configs, handles) ==
    [ids |-> ids, pairs |-> pairs, configs |-> configs, handles |-> handles]

\* The node data and handle pairs used on the larger shapes.
CoreConfigs ==
    { NodeData("set_data", DataA, ""),
      NodeData("http_request", EmptyMap, "http://host"),
      NodeData("wait", EmptyMap, "") }

CoreHandles ==
    { <<"output", "input">>, <<"output_success", "input">>, <<"output_error", "input">> }

\* The shapes: no node at all, a single node, a chain of two, a fan-out, a fan-in, a pure
\* cycle, an edge to a node that is not in the node list (alone, and before
\* an edge to a node that is), a chain of three, a
\* cycle behind an entry node, and a node reached by a short and a long path.
Topologies ==
    { Topology({}, << >>, NodeConfigs, EdgeHandles),
      Topology({1}, << >>, NodeConfigs, EdgeHandles),
      Topology({1, 2}, << <<1, 2>> >>, NodeConfigs, EdgeHandles),
      Topology({1, 2, 3}, << <<1, 2>>, <<1, 3>> >>, NodeConfigs, EdgeHandles),
      Topology({1, 2, 3}, << <<1, 3>>, <<2, 3>> >>, NodeConfigs, EdgeHandles),
      Topology({1, 2}, << <<1, 2>>, <<2, 1>> >>, NodeConfigs, EdgeHandles),
      Topology({1}, << <<1, 2>> >>, NodeConfigs, EdgeHandles),
      Topology({1, 2}, << <<1, 3>>, <<1, 2>> >>, CoreConfigs, CoreHandles),
      Topology({1, 2, 3}, << <<1, 2>>, <<2, 3>> >>, CoreConfigs, CoreHandles),
      Topology({1, 2, 3}, << <<1, 2>>, <<2, 3>>, <<3, 2>> >>, CoreConfigs, CoreHandles),
      Topology({1, 2, 3, 4}, << <<1, 2>>, <<1, 4>>, <<2, 3>>, <<3, 4>> >>,
               {NodeData("set_data", DataA, ""), NodeData("http_request", EmptyMap, "http://host")},
               {<<"output", "input">>, <<"output_success", "input">>}) }

WorkflowsOf(t) ==
    { [ nodes |-> nd,
        edges |-> [i \in DOMAIN t.pairs |->
                     [ source |-> t.pairs[i][1], target |-> t.pairs[i][2],
                       source_handle |-> hs[i][1], target_handle |-> hs[i][2] ]] ] :
      nd \in [t.ids -> t.configs], hs \in [DOMAIN t.pairs -> t.handles] }

\* The data of a condition node.
ConditionData(value1, operator, value2) ==
    [ type |-> "condition", data |-> EmptyMap, url |-> "",
      value1 |-> value1, operator |-> operator, value2 |-> value2 ]

\* The operands and operators of the modelled condition nodes: 5, 10 and the
\* strings "10" and "9"; four known operators and an unknown one.
ConditionOperands == { Num(5), Num(10), Str(<< 49, 48 >>), Str(<< 57 >>) }

ConditionConfigs ==
    { ConditionData(v1, op, v2) :
        v1 \in ConditionOperands, v2 \in ConditionOperands, op \in { ">", "<=", "==", "!=", "~" } }

\* A condition node 1 with an edge to node 2 and an edge to node 3, each on
\* output_true or on output_false.
ConditionWorkflows ==
    { [ nodes |-> (1 :> c) @@ (2 :> NodeData("set_data", DataA, ""))
                           @@ (3 :> NodeData("log", EmptyMap, "")),
        edges |-> << [ source |-> 1, target |-> 2,
                       source_handle |-> h2, target_handle |-> "input" ],
                     [ source |-> 1, target |-> 3,
                       source_handle |-> h3, target_handle |-> "input" ] >> ] :
      c \in ConditionConfigs, h2 \in {"output_true", "output_false"},
      h3 \in {"output_true", "output_false"} }

\* Two start nodes 1 and 2, a merge node 3 fed by 1 directly and by 2 through
\* node 4: edges 1 -> 3, 2 -> 4, 4 -> 3.
MergeWorkflows ==
    { [ nodes |-> (1 :> NodeData("set_data", DataA, "")) @@ (2 :> NodeData("set_data", DataB, ""))
                  @@ (3 :> NodeData("merge", EmptyMap, "")) @@ (4 :> c4),
        edges |-> << [ source |-> 1, target |-> 3,
                       source_handle |-> "output", target_handle |-> h1 ],
                     [ source |-> 2, target |-> 4,
                       source_handle |-> "output", target_handle |-> "input" ],
                     [ source |-> 4, target |-> 3,
                       source_handle |-> hs, target_handle |-> h4 ] >> ] :
      c4 \in { NodeData("set_data", DataA, ""), NodeData("http_request", EmptyMap, "http://host") },
      h1 \in {"input", "input_1"}, h4 \in {"input", "input_2"},
      hs \in {"output", "output_success"} }

\* The data of a loop node.
LoopData(items) == [type |-> "loop", data |-> EmptyMap, url |-> "", items |-> items]

\* What the `items` of a modelled loop node hold: nothing, arrays of 0, 1
\* and 3 items, and a string that is not a JSON array.
LoopItems == { "", "[]", "[1]", "[1,2,3]", "x" }

\* A loop node 1 with two edges to node 2 and one to node 3, each on
\* output_item or on output_done, and an edge from node 3 to node 2:
\* edges 1 -> 3, 1 -> 2, 1 -> 2, 3 -> 2.
LoopWorkflows ==
    { [ nodes |-> (1 :> LoopData(items)) @@ (2 :> c2) @@ (3 :> c3),
        edges |-> << [ source |-> 1, target |-> 3,
                       source_handle |-> h1, target_handle |-> "input" ],
                     [ source |-> 1, target |-> 2,
                       source_handle |-> h2, target_handle |-> "input" ],
                     [ source |-> 1, target |-> 2,
                       source_handle |-> h3, target_handle |-> "input" ],
                     [ source |-> 3, target |-> 2,
                       source_handle |-> "output", target_handle |-> "input_2" ] >> ] :
      items \in LoopItems,
      c2 \in { NodeData("set_data", DataA, ""), NodeData("wait", EmptyMap, ""),
               NodeData("log", EmptyMap, "") },
      c3 \in { NodeData("set_data", DataB, ""), NodeData("http_request", EmptyMap, "http://host") },
      h1 \in {"output_item", "output_done"}, h2 \in {"output_item", "output_done"},
      h3 \in {"output_item", "output_done"} }

Workflows ==
    UNION { WorkflowsOf(t) : t \in Topologies } \cup ConditionWorkflows \cup MergeWorkflows

----------------------------------------------------------------------------
(* Initial state: the workflow is stored, no run exists yet. *)

InitRun ==
    /\ nodeOutputs = EmptyMap
    /\ pc = "norun"
    /\ queue = << >>
    /\ visited = {}
    /\ cur = << >>
    /\ curLog = 0
    /\ err = ""
    /\ ret = "running"
    /\ ctxDone = FALSE
    /\ timerFired = FALSE
    /\ run = << >>
    /\ logs = << >>
    /\ now = 1
    /\ apiCalls = 0
    /\ runWrites = << >>
    /\ inputs = EmptyMap
    /\ results = EmptyMap
    /\ calls = << >>
    /\ RunID = 1
    /\ peer = << >>
    /\ workflow_nodes = EmptyMap
    /\ workflow_edges = EmptyMap
    /\ cancelledFirst = FALSE

Init ==
    /\ \E wf \in Workflows : Nodes = wf.nodes /\ Edges = wf.edges
    /\ faulty = FALSE
    /\ InitRun

----------------------------------------------------------------------------
(* WorkflowHandler.RunWorkflow: create the run row, build the engine. *)

RunWorkflow ==
    /\ UNCHANGED << RunID, peer, workflow_nodes, workflow_edges, cancelledFirst >>
    /\ pc = "norun"
    /\ run' = << RunRepoCreate >>
    /\ now' = now + 1
    /\ pc' = "created"
    /\ UNCHANGED << Nodes, Edges, nodeOutputs, queue, visited, cur, curLog, err, ret,
                    ctxDone, timerFired, faulty, apiCalls, logs, runWrites, inputs, results,
                    calls >>

----------------------------------------------------------------------------
(* WorkflowEngine.Execute, one action per repository write or executor call *)

\* failRun writes cancelled (failRunStatus with another terminal status).
failRunStatusCancelled == "cancelled"

\* The status failRun writes.
failRunStatus == "failed"

\* Execute goes on to the start nodes although the running write failed
\* (ExecuteStart without the early return).
ExecuteStartIgnoresError ==
    /\ UNCHANGED << RunID, peer, workflow_nodes, workflow_edges, cancelledFirst >>
    /\ pc = "created"
    /\ \E ok \in RepoOutcomes :
         /\ calls' = Append(calls, Call("run.UpdateStatus", 0, "running", ok))
         /\ IF ok
            THEN /\ run' = [run EXCEPT ![RunID] = RunRepoUpdateStatus(@, "running", NULL)]
                 /\ runWrites' = Append(runWrites, "running")
            ELSE UNCHANGED << run, runWrites >>
    /\ IF findStartNodes = {}
       THEN /\ err' = "No start nodes found"
            /\ pc' = "failing"
            /\ UNCHANGED queue
       ELSE /\ \E order \in Orders(findStartNodes) : queue' = order
            /\ pc' = "loop"
            /\ UNCHANGED err
    /\ now' = now + 1
    /\ UNCHANGED << Nodes, Edges, nodeOutputs, visited, cur, curLog, ctxDone, ret,
                    timerFired, faulty, apiCalls, logs, inputs, results >>

\* Execute up to the work loop: the run is set to running, the start nodes
\* seed the queue.
ExecuteStart ==
    /\ UNCHANGED << RunID, peer, workflow_nodes, workflow_edges, cancelledFirst >>
    /\ pc = "created"
    /\ \E ok \in RepoOutcomes :
         /\ calls' = Append(calls, Call("run.UpdateStatus", 0, "running", ok))
         /\ IF ~ok
            THEN /\ ret' = "failed to start run"
                 /\ pc' = "done"
                 /\ UNCHANGED << run, runWrites, queue, err >>
            ELSE /\ run' = [run EXCEPT ![RunID] = RunRepoUpdateStatus(@, "running", NULL)]
                 /\ runWrites' = Append(runWrites, "running")
                 /\ IF findStartNodes = {}
                    THEN /\ err' = "No start nodes found"
                         /\ pc' = "failing"
                         /\ UNCHANGED queue
                    ELSE /\ \E order \in Orders(findStartNodes) : queue' = order
                         /\ pc' = "loop"
                         /\ UNCHANGED err
                 /\ UNCHANGED ret
    /\ now' = now + 1
    /\ UNCHANGED << Nodes, Edges, nodeOutputs, visited, cur, curLog, ctxDone,
                    timerFired, faulty, apiCalls, logs, inputs, results >>

\* The visited check finds no node (alreadyVisited with an empty set).
neverVisited(nodeID) == FALSE

\* Execute goes on with the loop after processNode did not find the node
\* (afterNodeNotFound without the return).
afterNodeNotFoundLoop == "loop"

\* Where Execute stands after processNode did not find the node: it has the
\* error in hand and is about to call failRun and return.
afterNodeNotFound == "failing"

\* Execute's visited check on the popped node.
alreadyVisited(nodeID) == nodeID \in visited

\* One pass of the loop up to the executor call: pop, the visited check,
\* then processNode up to executor.Execute.
PopNode ==
    /\ UNCHANGED << RunID, peer, workflow_nodes, workflow_edges, cancelledFirst >>
    /\ pc = "loop"
    /\ queue # << >>
    /\ LET nodeID == Head(queue) IN
       /\ queue' = Tail(queue)
       /\ IF alreadyVisited(nodeID)
          THEN UNCHANGED << visited, pc, err, logs, cur, curLog, inputs, now, calls >>
          ELSE
            /\ visited' = visited \cup {nodeID}
            /\ IF nodeID \notin DOMAIN Nodes
               THEN /\ err' = "node not found"
                    /\ pc' = afterNodeNotFound
                    /\ UNCHANGED << logs, cur, curLog, inputs, now, calls >>
               ELSE \E created \in RepoOutcomes, updated \in RepoOutcomes :
                    IF ~created
                    THEN /\ err' = "failed to create log"
                         /\ pc' = "failing"
                         /\ now' = now + 1
                         /\ calls' = Append(calls, Call("log.Create", nodeID, "running", FALSE))
                         /\ UNCHANGED << logs, cur, curLog, inputs >>
                    ELSE
                      LET withLog == Append(logs, LogRepoCreate(RunID, nodeID, "running", now))
                          logID == Len(withLog)
                          typeErr == NewNodeExecutor(Nodes[nodeID].type)
                          withCreate == Append(calls, Call("log.Create", nodeID, "running", TRUE))
                      IN
                      IF Nodes[nodeID].type = NoType
                      THEN /\ logs' = withLog
                           /\ err' = "node type not found in data"
                           /\ pc' = "failing"
                           /\ now' = now + 1
                           /\ calls' = withCreate
                           /\ UNCHANGED << cur, curLog, inputs >>
                      ELSE IF typeErr # ""
                      THEN /\ logs' = updateLog(withLog, logID, "failed", "", typeErr,
                                                now + 1, updated)
                           /\ err' = typeErr
                           /\ pc' = "failing"
                           /\ now' = now + 2
                           /\ calls' = Append(withCreate,
                                              Call("log.Update", nodeID, "failed", updated))
                           /\ UNCHANGED << cur, curLog, inputs >>
                      ELSE /\ logs' = withLog
                           /\ cur' = << nodeID >>
                           /\ curLog' = logID
                           /\ inputs' = inputs @@ (nodeID :>
                                  inputsFromUpstream(getIncomingEdges(nodeID),
                                                     nodeOutputs, EmptyMap))
                           /\ pc' = "executing"
                           /\ now' = now + 1
                           /\ calls' = withCreate
                           /\ UNCHANGED err
    /\ timerFired' = FALSE
    /\ UNCHANGED << Nodes, Edges, nodeOutputs, ret, ctxDone, faulty, apiCalls, run,
                    runWrites, results >>

\* The executor returns; processNode saves the output and finalizes the log,
\* Execute appends the next nodes.
ExecutorReturn ==
    /\ UNCHANGED << RunID, peer, workflow_nodes, workflow_edges, cancelledFirst >>
    /\ pc = "executing"
    /\ \E r \in ExecutorExecute(Nodes[cur[1]], ctxDone, timerFired), ok \in RepoOutcomes :
         /\ results' = results @@ (cur[1] :> r)
         /\ IF r.err # ""
            THEN /\ logs' = updateLog(logs, curLog, "failed", "", r.err, now, ok)
                 /\ calls' = Append(calls, Call("log.Update", cur[1], "failed", ok))
                 /\ err' = r.err
                 /\ pc' = "failing"
                 /\ UNCHANGED << nodeOutputs, queue >>
            ELSE /\ nodeOutputs' = nodeOutputs @@ (cur[1] :> r.output)
                 /\ logs' = updateLog(logs, curLog,
                                      IF r.status = "failed" THEN "failed" ELSE "completed",
                                      "log", "", now, ok)
                 /\ calls' = Append(calls, Call("log.Update", cur[1],
                                   IF r.status = "failed" THEN "failed" ELSE "completed", ok))
                 /\ IF r.status = "failed"
                    THEN /\ err' = "node execution failed"
                         /\ pc' = "failing"
                         /\ UNCHANGED queue
                    ELSE /\ queue' = queue \o findNextNodes(cur[1], r.handle)
                         /\ pc' = "loop"
                         /\ UNCHANGED err
    /\ cur' = << >>
    /\ now' = now + 1
    /\ UNCHANGED << Nodes, Edges, visited, curLog, ret, ctxDone, timerFired, faulty, apiCalls,
                    run, runWrites, inputs >>

\* failRun writes failed but Execute goes on with the loop instead of
\* returning the error (FailRun without the return).
FailRunContinues ==
    /\ UNCHANGED << RunID, peer, workflow_nodes, workflow_edges, cancelledFirst >>
    /\ pc = "failing"
    /\ run' = [run EXCEPT ![RunID] = RunRepoUpdateStatus(@, failRunStatus, <<now>>)]
    /\ runWrites' = Append(runWrites, failRunStatus)
    /\ calls' = Append(calls, Call("run.UpdateStatus", 0, failRunStatus, TRUE))
    /\ pc' = "loop"
    /\ now' = now + 1
    /\ UNCHANGED << Nodes, Edges, nodeOutputs, queue, visited, cur, curLog, err, ret,
                    ctxDone, timerFired, faulty, apiCalls, logs, inputs, results >>

\* failRun, and Execute returning the error.
FailRun ==
    /\ UNCHANGED << RunID, peer, workflow_nodes, workflow_edges, cancelledFirst >>
    /\ pc = "failing"
    /\ \E ok \in RepoOutcomes :
         /\ calls' = Append(calls, Call("run.UpdateStatus", 0, failRunStatus, ok))
         /\ IF ok
            THEN /\ run' = [run EXCEPT ![RunID] = RunRepoUpdateStatus(@, failRunStatus, <<now>>)]
                 /\ runWrites' = Append(runWrites, failRunStatus)
            ELSE UNCHANGED << run, runWrites >>
    /\ ret' = err
    /\ pc' = "done"
    /\ now' = now + 1
    /\ UNCHANGED << Nodes, Edges, nodeOutputs, queue, visited, cur, curLog, err,
                    ctxDone, timerFired, faulty, apiCalls, logs, inputs, results >>

\* The work list has drained and the run is set to completed, but with a nil
\* finishedAt (CompleteRun without time.Now()).
CompleteRunNoTime ==
    /\ UNCHANGED << RunID, peer, workflow_nodes, workflow_edges, cancelledFirst >>
    /\ pc = "loop"
    /\ queue = << >>
    /\ calls' = Append(calls, Call("run.UpdateStatus", 0, "completed", TRUE))
    /\ run' = [run EXCEPT ![RunID] = RunRepoUpdateStatus(@, "completed", NULL)]
    /\ runWrites' = Append(runWrites, "completed")
    /\ ret' = ""
    /\ pc' = "done"
    /\ now' = now + 1
    /\ UNCHANGED << Nodes, Edges, nodeOutputs, queue, visited, cur, curLog, err,
                    ctxDone, timerFired, faulty, apiCalls, logs, inputs, results >>

\* The work list has drained: the run is set to completed.
CompleteRun ==
    /\ UNCHANGED << RunID, peer, workflow_nodes, workflow_edges, cancelledFirst >>
    /\ pc = "loop"
    /\ queue = << >>
    /\ \E ok \in RepoOutcomes :
         /\ calls' = Append(calls, Call("run.UpdateStatus", 0, "completed", ok))
         /\ IF ok
            THEN /\ run' = [run EXCEPT ![RunID] = RunRepoUpdateStatus(@, "completed", <<now>>)]
                 /\ runWrites' = Append(runWrites, "completed")
                 /\ ret' = ""
            ELSE /\ ret' = "failed to complete run"
                 /\ UNCHANGED << run, runWrites >>
    /\ pc' = "done"
    /\ now' = now + 1
    /\ UNCHANGED << Nodes, Edges, nodeOutputs, queue, visited, cur, curLog, err,
                    ctxDone, timerFired, faulty, apiCalls, logs, inputs, results >>

----------------------------------------------------------------------------
(* The environment of a run *)

\* The caller cancels the context it passed to Execute.
CancelContext ==
    /\ UNCHANGED << RunID, peer, workflow_nodes, workflow_edges, cancelledFirst >>
    /\ pc \in {"created", "loop", "executing", "failing"}
    /\ ~ctxDone
    /\ ctxDone' = TRUE
    /\ UNCHANGED << Nodes, Edges, nodeOutputs, pc, queue, visited, cur, curLog, err,
                    ret, timerFired, faulty, apiCalls, run, logs, now, runWrites, inputs, results,
                    calls >>

\* The timer of the wait executor in flight fires.
TimerFires ==
    /\ UNCHANGED << RunID, peer, workflow_nodes, workflow_edges, cancelledFirst >>
    /\ pc = "executing"
    /\ Nodes[cur[1]].type = "wait"
    /\ ~timerFired
    /\ timerFired' = TRUE
    /\ UNCHANGED << Nodes, Edges, nodeOutputs, pc, queue, visited, cur, curLog, err,
                    ret, ctxDone, faulty, apiCalls, run, logs, now, runWrites, inputs, results,
                    calls >>

Next ==
    \/ RunWorkflow
    \/ ExecuteStart
    \/ PopNode
    \/ ExecutorReturn
    \/ FailRun
    \/ CompleteRun
    \/ CancelContext
    \/ TimerFires

Spec == Init /\ [][Next]_vars

\* The graphs with cycles and with nodes reached over several paths: a fan-in,
\* a pure cycle, a cycle behind an entry node, a self-loop behind an entry
\* node, and a node reached by a short and a long path.
CyclicTopologies ==
    { Topology({1, 2, 3}, << <<1, 3>>, <<2, 3>> >>, CoreConfigs, CoreHandles),
      Topology({1, 2}, << <<1, 2>>, <<2, 1>> >>, CoreConfigs, CoreHandles),
      Topology({1, 2, 3}, << <<1, 2>>, <<2, 3>>, <<3, 2>> >>, CoreConfigs, CoreHandles),
      Topology({1, 2}, << <<1, 2>>, <<2, 2>> >>, CoreConfigs, CoreHandles),
      Topology({1, 2, 3, 4}, << <<1, 2>>, <<1, 4>>, <<2, 3>>, <<3, 4>> >>,
               {NodeData("set_data", DataA, ""), NodeData("http_request", EmptyMap, "http://host")},
               {<<"output", "input">>, <<"output_success", "input">>}) }

InitCyclic ==
    /\ \E t \in CyclicTopologies : \E wf \in WorkflowsOf(t) : Nodes = wf.nodes /\ Edges = wf.edges
    /\ faulty = FALSE
    /\ InitRun

\* The goroutine of Execute is scheduled and every executor call returns: the
\* timer of a wait executor fires unless the context is cancelled first.
Fairness ==
    /\ WF_vars(RunWorkflow)
    /\ WF_vars(ExecuteStart)
    /\ WF_vars(PopNode)
    /\ WF_vars(ExecutorReturn)
    /\ WF_vars(FailRun)
    /\ WF_vars(CompleteRun)
    /\ WF_vars(TimerFires)

SpecLive == InitCyclic /\ [][Next]_vars /\ Fairness

\* Runs in which any repository call of the engine may return an error: on a
\* single node, on a chain of two and on a node with two outgoing edges.
FaultConfigs ==
    { NodeData("set_data", DataA, ""),
      NodeData("http_request", EmptyMap, "http://host"),
      NodeData("wait", EmptyMap, ""),
      NodeData("not_a_real_type", EmptyMap, "") }

FaultHandles == { <<"output", "input">>, <<"output_error", "input">> }

FaultTopologies ==
    { Topology({1}, << >>, FaultConfigs, FaultHandles),
      Topology({1, 2}, << <<1, 2>> >>, FaultConfigs, FaultHandles),
      Topology({1, 2, 3}, << <<1, 2>>, <<1, 3>> >>,
               {NodeData("set_data", DataA, ""), NodeData("http_request", EmptyMap, "http://host")},
               FaultHandles) }

InitFaults ==
    /\ \E t \in FaultTopologies : \E wf \in WorkflowsOf(t) : Nodes = wf.nodes /\ Edges = wf.edges
    /\ faulty = TRUE
    /\ InitRun

SpecFaults == InitFaults /\ [][Next]_vars

\* Runs of the workflows with a loop node.
InitLoop ==
    /\ \E wf \in LoopWorkflows : Nodes = wf.nodes /\ Edges = wf.edges
    /\ faulty = FALSE
    /\ InitRun

SpecLoop == InitLoop /\ [][Next]_vars

\* Runs of one node of every registered type.  The node data says whether a
\* key is mistyped, what the field the executor looks at first holds, and
\* what the world outside does when called.
RawData(type, field, mistyped, external) ==
    [ type |-> type, mistyped |-> mistyped, external |-> external, data |-> EmptyMap,
      url |-> field, command |-> field, path |-> field, webhook_url |-> field,
      items |-> field, operator |-> field, value1 |-> Num(5), value2 |-> Num(5) ]

\* The types whose executor unmarshals into a struct with typed fields.
TypedInput == KnownTypes \ { "webhook", "cron", "merge", "loop" }

ExecutorInputs ==
    { RawData(type, field, mistyped, external) :
        type \in KnownTypes, field \in { "", "x", "==" },
        mistyped \in BOOLEAN, external \in External }

InitExecutors ==
    /\ \E d \in ExecutorInputs :
         /\ d.mistyped => d.type \in TypedInput
         /\ Nodes = (1 :> d)
    /\ Edges = << >>
    /\ faulty = FALSE
    /\ InitRun

SpecExecutors == InitExecutors /\ [][Next]_vars

----------------------------------------------------------------------------
(* One call of WaitNode.Execute, step by step: the input is unmarshalled, the
   select statement starts the timer and polls its two cases, and when none is
   ready the goroutine parks until the first of them becomes ready. *)

\* The scale of a unit in milliseconds; any other unit leaves milliseconds.
UnitScale(unit) ==
    CASE unit = "s" -> 1000
      [] unit = "m" -> 60000
      [] unit = "h" -> 3600000
      [] OTHER      -> 1

\* The duration the executor waits for, in milliseconds.
WaitDuration(data) == data.duration * UnitScale(data.unit)

WaitData(duration, unit, mistyped) ==
    [ type |-> "wait", data |-> EmptyMap, url |-> "", duration |-> duration,
      unit |-> unit, mistyped |-> mistyped ]

WaitInputs ==
    { WaitData(duration, unit, mistyped) :
        duration \in 0..2, unit \in { "", "ms", "s", "m", "h" }, mistyped \in BOOLEAN }

\* The variables a call of the executor does not touch.
waitUntouched ==
    << Nodes, Edges, nodeOutputs, queue, visited, cur, curLog, err, ret, faulty, run,
       logs, apiCalls, runWrites, inputs, calls, RunID, peer, workflow_nodes, workflow_edges >>

\* The call starts at time 1.  The caller may cancel the context at any
\* moment from then on, also before the select statement is reached.
InitWait ==
    /\ \E d \in WaitInputs : Nodes = (1 :> d)
    /\ Edges = << >>
    /\ nodeOutputs = EmptyMap
    /\ pc = "wait.called"
    /\ queue = << >>
    /\ visited = {}
    /\ cur = << 1 >>
    /\ curLog = 0
    /\ err = ""
    /\ ret = "running"
    /\ ctxDone = FALSE
    /\ timerFired = FALSE
    /\ faulty = FALSE
    /\ run = << >>
    /\ logs = << >>
    /\ now = 1
    /\ apiCalls = 0
    /\ runWrites = << >>
    /\ inputs = EmptyMap
    /\ results = EmptyMap
    /\ calls = << >>
    /\ RunID = 1
    /\ peer = << >>
    /\ workflow_nodes = EmptyMap
    /\ workflow_edges = EmptyMap
    /\ cancelledFirst = FALSE

\* json.Unmarshal and the duration; then the select statement evaluates
\* time.After(duration), which starts the timer.
WaitStartTimer ==
    /\ pc = "wait.called"
    /\ IF UnmarshalFails(Nodes[1])
       THEN /\ results' = (1 :> ParseFailure)
            /\ pc' = "wait.returned"
       ELSE /\ pc' = "wait.select"
            /\ UNCHANGED results
    /\ UNCHANGED << ctxDone, timerFired, now >>
    /\ UNCHANGED cancelledFirst
    /\ UNCHANGED waitUntouched

\* The select statement polls its cases: it takes one that is ready, either
\* one when both are, and parks the goroutine when none is.
WaitPoll ==
    /\ pc = "wait.select"
    /\ IF WaitExecute(Nodes[1], ctxDone, timerFired) = {}
       THEN /\ pc' = "wait.parked"
            /\ UNCHANGED results
       ELSE /\ \E r \in WaitExecute(Nodes[1], ctxDone, timerFired) : results' = (1 :> r)
            /\ pc' = "wait.returned"
    /\ UNCHANGED << ctxDone, timerFired, now >>
    /\ UNCHANGED cancelledFirst
    /\ UNCHANGED waitUntouched

\* The timer becomes due: the duration has passed since it was started.  A
\* parked goroutine is woken on the timer's case.
WaitTimerFires ==
    /\ pc \in { "wait.select", "wait.parked" }
    /\ ~timerFired
    /\ timerFired' = TRUE
    /\ now' = IF now < 1 + WaitDuration(Nodes[1]) THEN 1 + WaitDuration(Nodes[1]) ELSE now
    /\ IF pc = "wait.parked"
       THEN /\ \E r \in WaitExecute(Nodes[1], FALSE, TRUE) : results' = (1 :> r)
            /\ pc' = "wait.returned"
       ELSE UNCHANGED << pc, results >>
    /\ UNCHANGED ctxDone
    /\ UNCHANGED cancelledFirst
    /\ UNCHANGED waitUntouched

\* The caller cancels the context.  A parked goroutine is woken on the
\* ctx.Done() case.
WaitCancel ==
    /\ pc \in { "wait.called", "wait.select", "wait.parked" }
    /\ ~ctxDone
    /\ ctxDone' = TRUE
    /\ IF pc = "wait.parked"
       THEN /\ \E r \in WaitExecute(Nodes[1], TRUE, FALSE) : results' = (1 :> r)
            /\ pc' = "wait.returned"
       ELSE UNCHANGED << pc, results >>
    /\ UNCHANGED << timerFired, now >>
    /\ cancelledFirst' = ~timerFired
    /\ UNCHANGED waitUntouched

NextWait ==
    \/ WaitStartTimer
    \/ WaitPoll
    \/ WaitTimerFires
    \/ WaitCancel

SpecWait == InitWait /\ [][NextWait]_vars

----------------------------------------------------------------------------
(* Calls of ConditionNode.Execute on one pair of operands, once per operator *)

\* The operands: -1, 5 and 10, the strings "", "10", "5" and "9", true and
\* false, null, an empty object and an empty array.
OperandValues ==
    { Num(-1), Num(5), Num(10), Str(<< >>), Str(<< 49, 48 >>), Str(<< 53 >>), Str(<< 57 >>),
      Bool(TRUE), Bool(FALSE), Null, EmptyObject, EmptyArray }

\* The six operators of the executor and one it does not know.
OperatorsTried == << "==", "!=", ">", "<", ">=", "<=", "~" >>

InitCondition ==
    /\ \E v1 \in OperandValues, v2 \in OperandValues :
         Nodes = [i \in DOMAIN OperatorsTried |-> ConditionData(v1, OperatorsTried[i], v2)]
    /\ Edges = << >>
    /\ faulty = FALSE
    /\ InitRun

\* The executor is called with the next operator.
ConditionCall ==
    /\ Cardinality(DOMAIN results) < Len(OperatorsTried)
    /\ LET i == Cardinality(DOMAIN results) + 1 IN
       \E r \in ConditionExecute(Nodes[i]) : results' = results @@ (i :> r)
    /\ UNCHANGED << Nodes, Edges, nodeOutputs, pc, queue, visited, cur, curLog, err, ret,
                    ctxDone, timerFired, faulty, run, logs, now, apiCalls, runWrites,
                    inputs, calls, RunID, peer, workflow_nodes, workflow_edges, cancelledFirst >>

SpecCondition == InitCondition /\ [][ConditionCall]_vars

----------------------------------------------------------------------------
(* Two runs at once: RunWorkflow is called again while the engine of the
   first run exists.  Each call builds its own engine and starts its own
   goroutine; the repositories and the database clock are the same. *)

\* The fields and locals of one engine, and what was observed of it.
Memory ==
    [ Nodes |-> Nodes, Edges |-> Edges, RunID |-> RunID, nodeOutputs |-> nodeOutputs,
      pc |-> pc, queue |-> queue, visited |-> visited, cur |-> cur, curLog |-> curLog,
      err |-> err, ret |-> ret, ctxDone |-> ctxDone, timerFired |-> timerFired,
      runWrites |-> runWrites, inputs |-> inputs, results |-> results, calls |-> calls ]

\* Workflows with one start node and executors without an outside world: a
\* chain of two set_data nodes, and a set_data node before a node of an
\* unregistered type.  Both use the node ids 1 and 2.
ConcurrentWorkflows ==
    { [ nodes |-> (1 :> NodeData("set_data", DataA, "") @@ 2 :> second),
        edges |-> << [ source |-> 1, target |-> 2,
                       source_handle |-> "output", target_handle |-> "input" ] >> ] :
      second \in { NodeData("set_data", DataB, ""), NodeData("not_a_real_type", EmptyMap, "") } }

\* The second call of RunWorkflow: a new run row, a new engine with maps of
\* its own; the engine of the first run stays as it is.
RunWorkflowAgain ==
    /\ pc # "norun"
    /\ peer = << >>
    /\ peer' = << Memory >>
    /\ UNCHANGED << workflow_nodes, workflow_edges, cancelledFirst >>
    /\ \E wf \in ConcurrentWorkflows : Nodes' = wf.nodes /\ Edges' = wf.edges
    /\ run' = Append(run, RunRepoCreate)
    /\ RunID' = Len(run) + 1
    /\ now' = now + 1
    /\ pc' = "created"
    /\ nodeOutputs' = EmptyMap
    /\ queue' = << >>
    /\ visited' = {}
    /\ cur' = << >>
    /\ curLog' = 0
    /\ err' = ""
    /\ ret' = "running"
    /\ ctxDone' = FALSE
    /\ timerFired' = FALSE
    /\ runWrites' = << >>
    /\ inputs' = EmptyMap
    /\ results' = EmptyMap
    /\ calls' = << >>
    /\ UNCHANGED << faulty, logs, apiCalls >>

\* The two goroutines use one nodeOutputs map (Switch with nodeOutputs left
\* in place).
SwitchSharedOutputs ==
    /\ peer # << >>
    /\ peer' = << Memory >>
    /\ UNCHANGED << workflow_nodes, workflow_edges, cancelledFirst >>
    /\ Nodes' = peer[1].Nodes
    /\ Edges' = peer[1].Edges
    /\ RunID' = peer[1].RunID
    /\ pc' = peer[1].pc
    /\ queue' = peer[1].queue
    /\ visited' = peer[1].visited
    /\ cur' = peer[1].cur
    /\ curLog' = peer[1].curLog
    /\ err' = peer[1].err
    /\ ret' = peer[1].ret
    /\ ctxDone' = peer[1].ctxDone
    /\ timerFired' = peer[1].timerFired
    /\ runWrites' = peer[1].runWrites
    /\ inputs' = peer[1].inputs
    /\ results' = peer[1].results
    /\ calls' = peer[1].calls
    /\ UNCHANGED << nodeOutputs, faulty, run, logs, now, apiCalls >>

\* The scheduler runs the goroutine of the other run: its engine becomes the
\* one that steps.  The tables and the clock are not part of an engine.
Switch ==
    /\ peer # << >>
    /\ peer' = << Memory >>
    /\ UNCHANGED << workflow_nodes, workflow_edges, cancelledFirst >>
    /\ Nodes' = peer[1].Nodes
    /\ Edges' = peer[1].Edges
    /\ RunID' = peer[1].RunID
    /\ nodeOutputs' = peer[1].nodeOutputs
    /\ pc' = peer[1].pc
    /\ queue' = peer[1].queue
    /\ visited' = peer[1].visited
    /\ cur' = peer[1].cur
    /\ curLog' = peer[1].curLog
    /\ err' = peer[1].err
    /\ ret' = peer[1].ret
    /\ ctxDone' = peer[1].ctxDone
    /\ timerFired' = peer[1].timerFired
    /\ runWrites' = peer[1].runWrites
    /\ inputs' = peer[1].inputs
    /\ results' = peer[1].results
    /\ calls' = peer[1].calls
    /\ UNCHANGED << faulty, run, logs, now, apiCalls >>

InitConcurrent ==
    /\ \E wf \in ConcurrentWorkflows : Nodes = wf.nodes /\ Edges = wf.edges
    /\ faulty = FALSE
    /\ InitRun

\* The handler passes context.Background() to Execute, which nobody cancels,
\* and the workflows have no wait node.
NextConcurrent ==
    \/ RunWorkflow
    \/ RunWorkflowAgain
    \/ ExecuteStart
    \/ PopNode
    \/ ExecutorReturn
    \/ FailRun
    \/ CompleteRun
    \/ Switch

SpecConcurrent == InitConcurrent /\ [][NextConcurrent]_vars

----------------------------------------------------------------------------
(* The same workflow executed twice, one execution after the other.  Each
   execution builds its node map anew, and findStartNodes ranges over it in an
   order of its own. *)

\* Workflows whose executors depend on their input only: start nodes 1 and 2,
\* a merge node 3 fed by 1 directly and by 2 through node 4 (edges 1 -> 3,
\* 2 -> 4, 4 -> 3); node 1 can be of an unregistered type.
TwiceWorkflows ==
    { [ nodes |-> (1 :> c1) @@ (2 :> NodeData("set_data", DataB, ""))
                  @@ (3 :> NodeData("merge", EmptyMap, "")) @@ (4 :> c4),
        edges |-> << [ source |-> 1, target |-> 3,
                       source_handle |-> "output", target_handle |-> h1 ],
                     [ source |-> 2, target |-> 4,
                       source_handle |-> "output", target_handle |-> "input" ],
                     [ source |-> 4, target |-> 3,
                       source_handle |-> "output", target_handle |-> h4 ] >> ] :
      c1 \in { NodeData("set_data", DataA, ""), NodeData("not_a_real_type", EmptyMap, "") },
      c4 \in { NodeData("set_data", DataA, ""), NodeData("log", EmptyMap, "") },
      h1 \in {"input", "input_1"}, h4 \in {"input", "input_2"} }

\* RunWorkflow is called for the same workflow after its first execution has
\* returned: a new run row and a new engine over the same nodes and edges.
RunWorkflowTwice ==
    /\ pc = "done"
    /\ peer = << >>
    /\ peer' = << Memory >>
    /\ UNCHANGED << workflow_nodes, workflow_edges, cancelledFirst >>
    /\ run' = Append(run, RunRepoCreate)
    /\ RunID' = Len(run) + 1
    /\ now' = now + 1
    /\ pc' = "created"
    /\ nodeOutputs' = EmptyMap
    /\ queue' = << >>
    /\ visited' = {}
    /\ cur' = << >>
    /\ curLog' = 0
    /\ err' = ""
    /\ ret' = "running"
    /\ ctxDone' = FALSE
    /\ timerFired' = FALSE
    /\ runWrites' = << >>
    /\ inputs' = EmptyMap
    /\ results' = EmptyMap
    /\ calls' = << >>
    /\ UNCHANGED << Nodes, Edges, faulty, logs, apiCalls >>

InitTwice ==
    /\ \E wf \in TwiceWorkflows : Nodes = wf.nodes /\ Edges = wf.edges
    /\ faulty = FALSE
    /\ InitRun

\* The handler passes context.Background() to Execute, which nobody cancels,
\* and the workflows have no wait node.
NextTwice ==
    \/ RunWorkflow
    \/ RunWorkflowTwice
    \/ ExecuteStart
    \/ PopNode
    \/ ExecutorReturn
    \/ FailRun
    \/ CompleteRun

SpecTwice == InitTwice /\ [][NextTwice]_vars

----------------------------------------------------------------------------
(* The run-status and node-run-log endpoints, called while a run exists *)

MaxApiCalls == 2

\* workflowRunService.UpdateRunStatus computes finishedAt without "cancelled"
\* (UpdateRunStatusFinishedAt without cancelled).
UpdateRunStatusFinishedAtNoCancelled(status, t) ==
    IF status \in {"completed", "failed"} THEN <<t>> ELSE NULL

\* workflowRunService.UpdateRunStatus: finishedAt is now for a terminal
\* status, nil otherwise.
UpdateRunStatusFinishedAt(status, t) ==
    IF status = "completed" \/ status = "failed" \/ status = "cancelled"
    THEN <<t>> ELSE NULL

\* PATCH /workflow-runs/:id/status with a status the handler accepts.
UpdateWorkflowRunStatus ==
    /\ UNCHANGED << RunID, peer, workflow_nodes, workflow_edges, cancelledFirst >>
    /\ run # << >>
    /\ apiCalls < MaxApiCalls
    /\ \E status \in RunStatuses :
         run' = << RunRepoUpdateStatus(run[1], status,
                                       UpdateRunStatusFinishedAt(status, now)) >>
    /\ now' = now + 1
    /\ apiCalls' = apiCalls + 1
    /\ UNCHANGED << Nodes, Edges, nodeOutputs, pc, queue, visited, cur, curLog, err, ret,
                    ctxDone, timerFired, faulty, logs, runWrites, inputs, results, calls >>

\* POST /node-run-logs: the row is inserted with the requested status; the
\* table's CHECK admits the five log statuses, its foreign keys need an
\* existing run and node.
CreateNodeRunLog ==
    /\ UNCHANGED << RunID, peer, workflow_nodes, workflow_edges, cancelledFirst >>
    /\ run # << >>
    /\ apiCalls < MaxApiCalls
    /\ \E nodeID \in DOMAIN Nodes, status \in LogStatuses :
         logs' = Append(logs, LogRepoCreate(1, nodeID, status, now))
    /\ now' = now + 1
    /\ apiCalls' = apiCalls + 1
    /\ UNCHANGED << Nodes, Edges, nodeOutputs, pc, queue, visited, cur, curLog, err, ret,
                    ctxDone, timerFired, faulty, run, runWrites, inputs, results, calls >>

\* The (status, log_output) pairs of the modelled update requests: a status
\* alone, or a log output alone.
UpdateRequests == { <<st, "">> : st \in LogStatuses } \cup { <<"", "out">> }

\* PATCH /node-run-logs/:id: any of status, log_output, error_msg may be empty.
UpdateNodeRunLog ==
    /\ UNCHANGED << RunID, peer, workflow_nodes, workflow_edges, cancelledFirst >>
    /\ apiCalls < MaxApiCalls
    /\ \E id \in DOMAIN logs, req \in UpdateRequests :
         logs' = [logs EXCEPT ![id] = LogRepoUpdate(@, req[1], req[2], "", now)]
    /\ now' = now + 1
    /\ apiCalls' = apiCalls + 1
    /\ UNCHANGED << Nodes, Edges, nodeOutputs, pc, queue, visited, cur, curLog, err, ret,
                    ctxDone, timerFired, faulty, run, runWrites, inputs, results, calls >>

\* The workflows run while the endpoints are called: one node, and a chain of two.
ApiConfigs ==
    { NodeData("set_data", DataA, ""),
      NodeData("http_request", EmptyMap, "http://host"),
      NodeData("wait", EmptyMap, "") }

ApiWorkflows ==
    WorkflowsOf(Topology({1}, << >>, ApiConfigs, {<<"output", "input">>}))
    \cup WorkflowsOf(Topology({1, 2}, << <<1, 2>> >>, ApiConfigs,
                               {<<"output", "input">>}))

InitApi ==
    /\ \E wf \in ApiWorkflows : Nodes = wf.nodes /\ Edges = wf.edges
    /\ faulty = FALSE
    /\ InitRun

\* The run while its status endpoint is called.
NextRunApi ==
    \/ Next
    \/ UpdateWorkflowRunStatus

SpecRunApi == InitApi /\ [][NextRunApi]_vars

\* The run while the log endpoints are called.
NextLogApi ==
    \/ Next
    \/ CreateNodeRunLog
    \/ UpdateNodeRunLog

SpecLogApi == InitApi /\ [][NextLogApi]_vars

----------------------------------------------------------------------------
(* The node and edge endpoints.  Table workflow_edges has a foreign key on
   workflow_id only; source_node_id and target_node_id are plain UUID columns. *)

MaxGraphCalls == 3

\* The rows of table workflows: the workflows that exist.
StoredWorkflows == {1, 2}

\* uuid.New(): an id no earlier call has issued.
NewID == apiCalls + 1

\* The ids a request can name: of rows that exist, existed or never did.
RequestIDs == 1..MaxGraphCalls

graphUntouched ==
    << Nodes, Edges, nodeOutputs, pc, queue, visited, cur, curLog, err, ret, ctxDone,
       timerFired, faulty, run, logs, now, runWrites, inputs, results, calls, RunID, peer,
       cancelledFirst >>

\* POST /workflow-nodes: INSERT INTO workflow_nodes; the foreign key needs an
\* existing workflow.
CreateWorkflowNode ==
    /\ apiCalls < MaxGraphCalls
    /\ \E workflowID \in StoredWorkflows \cup {3} :
         workflow_nodes' =
             IF workflowID \in StoredWorkflows
             THEN workflow_nodes @@ (NewID :> [workflow_id |-> workflowID])
             ELSE workflow_nodes
    /\ apiCalls' = apiCalls + 1
    /\ UNCHANGED workflow_edges
    /\ UNCHANGED graphUntouched

\* DELETE /workflow-nodes/:id: DELETE FROM workflow_nodes WHERE id = $1.
DeleteWorkflowNode ==
    /\ apiCalls < MaxGraphCalls
    /\ \E id \in RequestIDs :
         workflow_nodes' = [n \in DOMAIN workflow_nodes \ {id} |-> workflow_nodes[n]]
    /\ apiCalls' = apiCalls + 1
    /\ UNCHANGED workflow_edges
    /\ UNCHANGED graphUntouched

\* POST /workflow-edges: INSERT ... SELECT ... FROM workflows wf WHERE wf.id = $2
\* inserts the row when the workflow exists, with the node ids of the request.
CreateWorkflowEdge ==
    /\ apiCalls < MaxGraphCalls
    /\ \E workflowID \in StoredWorkflows \cup {3}, source \in RequestIDs, target \in RequestIDs :
         workflow_edges' =
             IF workflowID \in StoredWorkflows
             THEN workflow_edges @@
                  (NewID :> [ workflow_id |-> workflowID, source_node_id |-> source,
                              target_node_id |-> target, source_handle |-> "output",
                              target_handle |-> "input" ])
             ELSE workflow_edges
    /\ apiCalls' = apiCalls + 1
    /\ UNCHANGED workflow_nodes
    /\ UNCHANGED graphUntouched

\* PUT /workflow-edges/:id: COALESCE($n, column) per column; a node id of 0
\* (uuid.Nil) and an empty handle leave the column as it is.
UpdateWorkflowEdge ==
    /\ apiCalls < MaxGraphCalls
    /\ \E id \in RequestIDs, source \in {0} \cup RequestIDs, target \in {0} \cup RequestIDs,
          sourceHandle \in {"", "output_error"} :
         workflow_edges' =
             IF id \in DOMAIN workflow_edges
             THEN [ workflow_edges EXCEPT ![id] =
                      [ @ EXCEPT
                          !.source_node_id = IF source = 0 THEN @ ELSE source,
                          !.target_node_id = IF target = 0 THEN @ ELSE target,
                          !.source_handle  = IF sourceHandle = "" THEN @ ELSE sourceHandle ] ]
             ELSE workflow_edges
    /\ apiCalls' = apiCalls + 1
    /\ UNCHANGED workflow_nodes
    /\ UNCHANGED graphUntouched

\* DELETE /workflow-edges/:id.
DeleteWorkflowEdge ==
    /\ apiCalls < MaxGraphCalls
    /\ \E id \in RequestIDs :
         workflow_edges' = [e \in DOMAIN workflow_edges \ {id} |-> workflow_edges[e]]
    /\ apiCalls' = apiCalls + 1
    /\ UNCHANGED workflow_nodes
    /\ UNCHANGED graphUntouched

\* No node, no edge and no run exist yet.
InitGraph ==
    /\ Nodes = EmptyMap
    /\ Edges = << >>
    /\ faulty = FALSE
    /\ InitRun

NextGraph ==
    \/ CreateWorkflowNode
    \/ DeleteWorkflowNode
    \/ CreateWorkflowEdge
    \/ UpdateWorkflowEdge
    \/ DeleteWorkflowEdge

SpecGraph == InitGraph /\ [][NextGraph]_vars

----------------------------------------------------------------------------
(* Vocabulary of the properties *)

\* The log rows of node n.
LogsOf(n) == { i \in DOMAIN logs : logs[i].node_id = n }

\* A soft failure: status failed on output_error with a nil error.
IsSoftFailure(r) == r.status = "failed" /\ r.handle = "output_error" /\ r.err = ""

\* Edge j left a node that was executed, on the handle its result triggered.
Traversed(j) ==
    /\ Edges[j].source \in DOMAIN results
    /\ results[Edges[j].source].handle # ""
    /\ Edges[j].source_handle = results[Edges[j].source].handle

\* The nodes no edge targets.
StartNodes == { n \in DOMAIN Nodes : ~ \E j \in DOMAIN Edges : Edges[j].target = n }

\* The nodes reached from R over traversed edges.
RECURSIVE GatedReach(_)
GatedReach(R) ==
    LET R2 == R \cup { Edges[j].target :
                         j \in { k \in DOMAIN Edges : Edges[k].source \in R /\ Traversed(k) } }
    IN  IF R2 = R THEN R ELSE GatedReach(R2)

\* The errors of a hard failure of processNode: an executor error, an unknown
\* type key, a node without a string type.
HardErrors ==
    { "URL is required", "context canceled", "unknown operator", "unknown node type",
      "node type not found in data" }

----------------------------------------------------------------------------
(* C1 - C10 *)

\* C1: after an executor returned a soft failure, that node's log is failed,
\* the targets of its output_error edges have been enqueued, Execute does not
\* abort on it, and a run that returns without error ends completed.
C1_SoftFailureContinues ==
    \A n \in DOMAIN results :
        IsSoftFailure(results[n]) =>
            /\ \E i \in LogsOf(n) : logs[i].status = "failed"
            /\ \A j \in DOMAIN Edges :
                  (Edges[j].source = n /\ Edges[j].source_handle = "output_error")
                      => Edges[j].target \in visited \cup SeqToSet(queue)
            /\ err # "node execution failed"
            /\ (pc = "done" /\ ret = "") => run[1].status = "completed"

\* C2: when the wait executor returned cancelled because the context was
\* cancelled, the terminal status of the run is cancelled, with finished_at set.
C2_CancelledRunIsCancelled ==
    (pc = "done" /\ \E n \in DOMAIN results : results[n].status = "cancelled")
        => (run[1].status = "cancelled" /\ run[1].finished_at # NULL)

\* C3: when Execute returned the error of a hard failure of a node, the log
\* row of that node (the last one created) is failed with that error as
\* error_msg, the run is failed and the returned error is non-nil.
C3_HardFailureRecorded ==
    (pc = "done" /\ ret \in HardErrors) =>
        /\ logs # << >>
        /\ logs[Len(logs)].status = "failed"
        /\ logs[Len(logs)].error_msg = ret
        /\ run[1].status = "failed"
        /\ ret # ""

\* C4: every node with a log row, and every node handed to an executor, is a
\* start node or is reached from the start nodes over edges whose source was
\* executed and whose source handle is the handle that source triggered.
C4_HandleIsolation ==
    LET reach == GatedReach(StartNodes) IN
    /\ \A i \in DOMAIN logs : logs[i].node_id \in reach
    /\ DOMAIN inputs \subseteq reach
    /\ DOMAIN results \subseteq reach

\* C4 witness: a finished run in which one node has a traversed edge whose
\* target has a log row and an edge on another handle whose target has none.
C4_Witness ==
    /\ pc = "done"
    /\ \E j, k \in DOMAIN Edges :
          /\ Edges[j].source = Edges[k].source
          /\ Traversed(j) /\ ~Traversed(k)
          /\ LogsOf(Edges[j].target) # {}
          /\ LogsOf(Edges[k].target) = {}

\* Node s had written its output map when node c was popped: s has an output
\* and its log row is older than that of c (one node is processed at a time).
ProducedBefore(s, c) ==
    /\ s \in DOMAIN nodeOutputs
    /\ \E i \in LogsOf(s), k \in LogsOf(c) : logs[i].started_at < logs[k].started_at

\* What the output routing law says edge j delivers from the output map out.
Delivered(j, out) ==
    IF Edges[j].source_handle \in DOMAIN out
    THEN [whole |-> FALSE, value |-> out[Edges[j].source_handle], map |-> EmptyMap]
    ELSE [whole |-> TRUE, value |-> "", map |-> out]

\* Edge j delivered its value into the input of its target.
RoutedTo(j) ==
    LET c == Edges[j].target IN
    /\ Edges[j].target_handle \in DOMAIN inputs[c]
    /\ inputs[c][Edges[j].target_handle] = Delivered(j, nodeOutputs[Edges[j].source])

\* C5 as claimed: for every executed consumer and every incoming edge whose
\* source had produced outputs, the input at the edge's target handle is the
\* source's output at the source handle, or the whole output map if absent.
C5_OutputRoutingEveryEdge ==
    \A j \in DOMAIN Edges :
        (Edges[j].target \in DOMAIN inputs /\ ProducedBefore(Edges[j].source, Edges[j].target))
            => RoutedTo(j)

\* C5 amended: the same, for every such edge that no later edge of the edge
\* list with the same target, the same target handle and a source that had
\* produced outputs follows.
C5_OutputRoutingLastEdge ==
    \A j \in DOMAIN Edges :
        ( /\ Edges[j].target \in DOMAIN inputs
          /\ ProducedBefore(Edges[j].source, Edges[j].target)
          /\ ~ \E k \in DOMAIN Edges :
                  /\ k > j
                  /\ Edges[k].target = Edges[j].target
                  /\ Edges[k].target_handle = Edges[j].target_handle
                  /\ ProducedBefore(Edges[k].source, Edges[k].target) )
            => RoutedTo(j)

\* C5 witness: an executed consumer with two incoming edges on one target
\* handle, both sources with outputs, the first delivering a whole map and
\* the last one an entry of its source's map.
C5_Witness ==
    \E j, k \in DOMAIN Edges :
        /\ j < k
        /\ Edges[j].target = Edges[k].target
        /\ Edges[j].target_handle = Edges[k].target_handle
        /\ Edges[j].target \in DOMAIN inputs
        /\ ProducedBefore(Edges[j].source, Edges[j].target)
        /\ ProducedBefore(Edges[k].source, Edges[k].target)
        /\ Delivered(j, nodeOutputs[Edges[j].source]).whole
        /\ ~Delivered(k, nodeOutputs[Edges[k].source]).whole
        /\ RoutedTo(k)

\* The positions of the terminal statuses among the engine's run writes.
TerminalWrites == { i \in DOMAIN runWrites : runWrites[i] \in RunTerminal }

C7_RunFinishedAtIffTerminal ==
    run # << >> => (run[1].finished_at # NULL <=> run[1].status \in RunTerminal)

\* C7 witness: Execute has returned and the status endpoint has then set the
\* run to cancelled.
C7_Witness ==
    /\ pc = "done"
    /\ apiCalls > 0
    /\ run[1].status = "cancelled"
    /\ run[1].finished_at # NULL

\* C8: every log row has a finished_at exactly when its status is terminal.
C8_LogFinishedAtIffTerminal ==
    \A i \in DOMAIN logs :
        logs[i].finished_at # NULL <=> logs[i].status \in LogTerminal

\* C9: when Execute has returned, every visited node of the workflow has
\* exactly one log row, created as running and brought to completed or failed
\* by exactly one update.
C9_OneLogOneUpdate ==
    pc = "done" =>
        \A n \in visited \cap DOMAIN Nodes :
            /\ Cardinality(LogsOf(n)) = 1
            /\ \A i \in LogsOf(n) :
                  /\ logs[i].createdAs = "running"
                  /\ logs[i].updates = 1
                  /\ logs[i].status \in {"completed", "failed"}

\* Edge j was traversed and Execute enqueued its target: its source completed
\* on the edge's source handle.
Followed(j) == Traversed(j) /\ results[Edges[j].source].status = "completed"

\* C10 as claimed: for every traversed edge, the log row of the source is
\* older than the log row of the target.
C10_SourceLogBeforeTarget ==
    \A j \in DOMAIN Edges :
        Followed(j) =>
            \A i \in LogsOf(Edges[j].source), k \in LogsOf(Edges[j].target) :
                logs[i].started_at < logs[k].started_at

\* C10 amended: every log row of a node that some edge targets is younger
\* than the log row of the source of at least one traversed edge into it.
\* (A traversed edge into a node that was executed earlier, over another path
\* or as the head of a cycle, has the younger log row at its source.)
C10_SomeSourceLogBefore ==
    \A k \in DOMAIN logs :
        (\E j \in DOMAIN Edges : Edges[j].target = logs[k].node_id) =>
            \E j \in DOMAIN Edges :
                /\ Edges[j].target = logs[k].node_id
                /\ Followed(j)
                /\ \E i \in LogsOf(Edges[j].source) : logs[i].started_at < logs[k].started_at

\* C10 witness: a node with two traversed edges into it, the source of one
\* logged before it and the source of the other logged after it.
C10_Witness ==
    \E j, k \in DOMAIN Edges :
        /\ Edges[j].target = Edges[k].target
        /\ Followed(j) /\ Followed(k)
        /\ \E a \in LogsOf(Edges[j].source), t \in LogsOf(Edges[j].target) :
              logs[a].started_at < logs[t].started_at
        /\ \E b \in LogsOf(Edges[k].source), t \in LogsOf(Edges[k].target) :
              logs[t].started_at < logs[b].started_at

----------------------------------------------------------------------------
(* C11 - C20 *)

\* C11: in a workflow where every node is the target of an edge (the empty
\* workflow included) no node is ever popped or executed and no log row is
\* created, and once Execute has returned the run is failed with a
\* finished_at, the error says that no start nodes were found, and the only
\* repository calls were the two status writes of the run.
C11_NoStartNodesFails ==
    StartNodes = {} =>
        /\ visited = {} /\ logs = << >>
        /\ DOMAIN results = {} /\ DOMAIN inputs = {} /\ DOMAIN nodeOutputs = {}
        /\ pc = "done" =>
              /\ run[1].status = "failed" /\ run[1].finished_at # NULL
              /\ ret = "No start nodes found"
              /\ calls = << Call("run.UpdateStatus", 0, "running", TRUE),
                            Call("run.UpdateStatus", 0, "failed", TRUE) >>

\* C11 witness: Execute has returned on a workflow that has nodes, each of
\* them the target of an edge.
C11_Witness ==
    /\ pc = "done"
    /\ DOMAIN Nodes # {}
    /\ StartNodes = {}
    /\ ret = "No start nodes found"

\* C12: Execute returns in every run, and at no time has a node more than one
\* log row or more than one log.Create call (it is processed at most once).
C12_TerminatesEachNodeOnce ==
    /\ <>(pc = "done")
    /\ [](\A n \in DOMAIN Nodes :
            /\ Cardinality(LogsOf(n)) <= 1
            /\ Cardinality({ i \in DOMAIN calls :
                                calls[i].op = "log.Create" /\ calls[i].node = n }) <= 1)

\* C12 witness: Execute has returned nil on a graph in which an edge was
\* followed into a node that had been executed before the edge's source.
C12_Witness ==
    /\ pc = "done" /\ ret = ""
    /\ \E j \in DOMAIN Edges :
          /\ Followed(j)
          /\ \E a \in LogsOf(Edges[j].source), t \in LogsOf(Edges[j].target) :
                logs[t].started_at <= logs[a].started_at

\* The workflow is a chain 1 -> 2 -> ... -> n of nodes that all have an executor.
IsChain ==
    /\ DOMAIN Nodes = 1..(Len(Edges) + 1)
    /\ \A j \in DOMAIN Edges : Edges[j].source = j /\ Edges[j].target = j + 1
    /\ \A n \in DOMAIN Nodes : Nodes[n].type \in KnownTypes

\* The calls of processNode on the nodes i..n of a chain whose executors complete.
RECURSIVE ChainNodeCalls(_, _)
ChainNodeCalls(i, n) ==
    IF i > n THEN << >>
    ELSE << Call("log.Create", i, "running", TRUE),
            Call("log.Update", i, "completed", TRUE) >> \o ChainNodeCalls(i + 1, n)

\* C13: when Execute has returned on a chain in which every executor call
\* completed and every edge is on the handle its source triggered, it returned
\* nil, the run is completed with a finished_at, and the repository calls
\* were: run running; per node in chain order log created running, log
\* updated completed; run completed.
C13_ChainCallSequence ==
    ( /\ pc = "done"
      /\ IsChain
      /\ \A n \in DOMAIN results : results[n].status = "completed" /\ results[n].err = ""
      /\ \A j \in DOMAIN Edges : Edges[j].source \in DOMAIN results => Traversed(j) )
    =>
    /\ ret = ""
    /\ run[1].status = "completed" /\ run[1].finished_at # NULL
    /\ calls = << Call("run.UpdateStatus", 0, "running", TRUE) >>
                 \o ChainNodeCalls(1, Len(Edges) + 1)
                 \o << Call("run.UpdateStatus", 0, "completed", TRUE) >>

\* C13 witness: Execute has returned nil on a chain of three nodes, all executed.
C13_Witness ==
    /\ pc = "done" /\ ret = ""
    /\ IsChain
    /\ Len(Edges) = 2
    /\ DOMAIN results = {1, 2, 3}
    /\ logs[3].node_id = 3 /\ logs[3].status = "completed"

\* C14: an executed condition node completes on exactly one of output_true
\* and output_false; for two numbers it is output_true exactly when the
\* numbers compare as the operator says; and of the two targets only those
\* on the triggered handle have a log row.
C14_ConditionBranch ==
    \A n \in DOMAIN results :
        (Nodes[n].type = "condition" /\ results[n].err = "") =>
            LET d == Nodes[n]  r == results[n] IN
            /\ r.status = "completed"
            /\ r.handle \in {"output_true", "output_false"}
            /\ (d.value1.kind = "number" /\ d.value2.kind = "number") =>
                  ( r.handle = "output_true" <=>
                      CASE d.operator = ">"  -> d.value1.n > d.value2.n
                        [] d.operator = "<=" -> d.value1.n <= d.value2.n
                        [] d.operator = "==" -> d.value1.n = d.value2.n
                        [] d.operator = "!=" -> d.value1.n # d.value2.n )
            /\ \A j \in DOMAIN Edges :
                  (Edges[j].source = n /\ LogsOf(Edges[j].target) # {})
                      => \E k \in DOMAIN Edges :
                            /\ Edges[k].source = n /\ Edges[k].target = Edges[j].target
                            /\ Edges[k].source_handle = r.handle
            /\ pc = "done" /\ ret = "" =>
                  \A j \in DOMAIN Edges :
                      (Edges[j].source = n /\ Edges[j].source_handle = r.handle)
                          => LogsOf(Edges[j].target) # {}

\* C14 witness: Execute has returned after a condition 10 > 5 whose
\* output_true target has a log row and whose output_false target has none.
C14_Witness ==
    /\ pc = "done"
    /\ 1 \in DOMAIN results
    /\ Nodes[1].type = "condition"
    /\ Nodes[1].value1 = Num(10) /\ Nodes[1].operator = ">" /\ Nodes[1].value2 = Num(5)
    /\ \E j, k \in DOMAIN Edges :
          /\ Edges[j].source = 1 /\ Edges[j].source_handle = "output_true"
          /\ Edges[k].source = 1 /\ Edges[k].source_handle = "output_false"
          /\ LogsOf(Edges[j].target) # {}
          /\ LogsOf(Edges[k].target) = {}

\* The incoming edges of node c whose source had produced its output map
\* when c was popped.
ProducedIncoming(c) ==
    { j \in DOMAIN Edges : Edges[j].target = c /\ ProducedBefore(Edges[j].source, c) }

\* C15: a node handed to an executor has exactly one log row, and its input
\* has exactly the target handles of the incoming edges whose sources had
\* already produced outputs when it was popped, each holding what one of
\* those edges delivers; an edge followed into it later adds nothing.
C15_FirstPopInputsOnly ==
    \A c \in DOMAIN inputs :
        /\ Cardinality(LogsOf(c)) = 1
        /\ DOMAIN inputs[c] = { Edges[j].target_handle : j \in ProducedIncoming(c) }
        /\ \A h \in DOMAIN inputs[c] :
              \E j \in ProducedIncoming(c) :
                  /\ Edges[j].target_handle = h
                  /\ inputs[c][h] = Delivered(j, nodeOutputs[Edges[j].source])

\* C15 witness: Execute has returned nil; a merge node was executed with the
\* input of one upstream node only, and the edge from the other upstream
\* node, which completed later, was followed into it without effect.
C15_Witness ==
    /\ pc = "done" /\ ret = ""
    /\ \E c \in DOMAIN inputs :
          /\ Nodes[c].type = "merge"
          /\ Cardinality(LogsOf(c)) = 1
          /\ \E j, k \in DOMAIN Edges :
                /\ Edges[j].target = c /\ Edges[k].target = c
                /\ j \in ProducedIncoming(c)
                /\ Followed(k) /\ k \notin ProducedIncoming(c)
                /\ Edges[k].target_handle \notin DOMAIN inputs[c]

\* C17: a log row is in status running only while its node is being
\* processed (so at most one row is), and when the next node is popped no
\* row is running.
C17_OneRunningLog ==
    /\ \A i \in DOMAIN logs :
          logs[i].status = "running" => (pc = "executing" /\ curLog = i)
    /\ Cardinality({ i \in DOMAIN logs : logs[i].status = "running" }) <= 1

\* The nodes whose executor returned a result with a nil error and whose
\* finalizing log Update then failed.
UpdateFailedOn ==
    { n \in DOMAIN results :
        /\ results[n].err = ""
        /\ \E i \in DOMAIN calls :
              calls[i].op = "log.Update" /\ calls[i].node = n /\ ~calls[i].ok }

\* Execute aborted the run on the result of node n: processNode returned the
\* error of a failed result, and the last call on a log was the Update on n.
AbortedOnResultOf(n) ==
    /\ err = "node execution failed"
    /\ LET logCalls == SelectSeq(calls, LAMBDA c : c.op # "run.UpdateStatus")
       IN  logCalls # << >> /\ logCalls[Len(logCalls)].node = n

\* C18: when the log Update failed on a node whose executor returned a result
\* without error, the node's output is recorded, the targets of its edges on
\* the triggered handle have been enqueued, and the run is not aborted on
\* that node.
C18_LogUpdateFailureNonFatal ==
    \A n \in UpdateFailedOn :
        /\ n \in DOMAIN nodeOutputs /\ nodeOutputs[n] = results[n].output
        /\ \A j \in DOMAIN Edges :
              (Edges[j].source = n /\ Edges[j].source_handle = results[n].handle)
                  => Edges[j].target \in visited \cup SeqToSet(queue)
        /\ ~AbortedOnResultOf(n)

\* C19: when the write that sets the run to running failed, Execute has
\* returned the start error, that write is the only repository call ever
\* issued, the run row is untouched, and no node was popped, logged or executed.
C19_StartFailureAborts ==
    (calls # << >> /\ ~calls[1].ok) =>
        /\ pc = "done"
        /\ ret = "failed to start run"
        /\ calls = << Call("run.UpdateStatus", 0, "running", FALSE) >>
        /\ run = << RunRepoCreate >> /\ runWrites = << >>
        /\ logs = << >> /\ visited = {} /\ queue = << >>
        /\ DOMAIN results = {} /\ DOMAIN inputs = {} /\ DOMAIN nodeOutputs = {}

\* C19 witness: Execute has returned on the failed start of a run whose
\* workflow has a start node.
C19_Witness ==
    /\ pc = "done"
    /\ calls # << >> /\ ~calls[1].ok
    /\ StartNodes # {}
    /\ ret = "failed to start run"

----------------------------------------------------------------------------
(* C20 *)

\* The types whose executor calls something outside the process: a server, a
\* program, the file system, the JavaScript machine.
OperationTypes ==
    { "http_request", "shell_command", "code_js", "file_read", "file_write",
      "db_postgres", "db_mysql", "email_smtp", "slack" }

\* The key an executor requires to be non-empty, "" when it requires none.
RequiredField(type) ==
    CASE type = "http_request"                 -> "url"
      [] type = "shell_command"                -> "command"
      [] type \in { "file_read", "file_write" } -> "path"
      [] type = "slack"                        -> "webhook_url"
      [] OTHER                                 -> ""

\* The input cannot be parsed, a required field is missing, or the operator
\* of a condition is unknown.
HardSituation(d) ==
    \/ UnmarshalFails(d)
    \/ RequiredField(d.type) # "" /\ Field(d, RequiredField(d.type)) = ""
    \/ d.type = "condition" /\ d.operator \notin ConditionOperators

\* The input is in order and the operation outside the process fails.
SoftSituation(d) ==
    ~HardSituation(d) /\ d.type \in OperationTypes /\ d.external = "fails"

\* C20: whenever the external operation of a node's executor failed, the
\* executor returned status "failed", handle "output_error" and a nil error;
\* whenever the node's input could not be parsed, a required field was missing
\* or the operator was unknown, it returned a non-nil error.
C20_SoftAndHardFailures ==
    \A n \in DOMAIN results :
        /\ SoftSituation(Nodes[n]) => IsSoftFailure(results[n])
        /\ HardSituation(Nodes[n]) => results[n].err # ""

----------------------------------------------------------------------------
(* C16 *)

\* The engines that exist: the one stepping and the one of the other run.
Engines == { Memory } \cup (IF peer = << >> THEN {} ELSE { peer[1] })

\* The log rows of a run, in insertion order, without their ids and times.
LogRowsOfRun(runID) ==
    LET rows == SelectSeq(logs, LAMBDA row : row.run_id = runID) IN
    [ i \in DOMAIN rows |->
        [ node_id |-> rows[i].node_id, status |-> rows[i].status,
          log_output |-> rows[i].log_output, error_msg |-> rows[i].error_msg,
          finished |-> rows[i].finished_at # NULL ] ]

\* What a finished run leaves: its row, what Execute returned, the engine's
\* nodeOutputs and visited set, and its log rows.
Outcome(m) ==
    [ status |-> run[m.RunID].status, finished |-> run[m.RunID].finished_at # NULL,
      ret |-> m.ret, nodeOutputs |-> m.nodeOutputs, visited |-> m.visited,
      logs |-> LogRowsOfRun(m.RunID) ]

\* What a run of the workflow leaves when no other run exists.
AloneOutcome(nodes) ==
    IF nodes[2].type = "set_data"
    THEN [ status |-> "completed", finished |-> TRUE, ret |-> "",
           nodeOutputs |-> (1 :> nodes[1].data @@ 2 :> nodes[2].data), visited |-> {1, 2},
           logs |-> << [ node_id |-> 1, status |-> "completed", log_output |-> "log",
                         error_msg |-> "", finished |-> TRUE ],
                       [ node_id |-> 2, status |-> "completed", log_output |-> "log",
                         error_msg |-> "", finished |-> TRUE ] >> ]
    ELSE [ status |-> "failed", finished |-> TRUE, ret |-> "unknown node type",
           nodeOutputs |-> (1 :> nodes[1].data), visited |-> {1, 2},
           logs |-> << [ node_id |-> 1, status |-> "completed", log_output |-> "log",
                         error_msg |-> "", finished |-> TRUE ],
                       [ node_id |-> 2, status |-> "failed", log_output |-> "",
                         error_msg |-> "unknown node type", finished |-> TRUE ] >> ]

\* C16: whether a run executes alone or interleaved in any way with a second
\* run of the same or of another workflow, once its Execute has returned its
\* nodeOutputs, visited set, log rows, returned error and final status are
\* those of the run executing alone; and until then an engine has recorded
\* outputs and visits of its own nodes' executors only.
C16_RunsShareNoMemory ==
    \A m \in Engines :
        /\ m.pc = "done" => Outcome(m) = AloneOutcome(m.Nodes)
        /\ \A n \in DOMAIN m.nodeOutputs :
              n \in DOMAIN m.results /\ m.nodeOutputs[n] = m.results[n].output

\* Both runs have finished, the second one of another workflow than the
\* first, and their log rows were written in turns.
C16_Witness ==
    /\ peer # << >>
    /\ pc = "done" /\ peer[1].pc = "done"
    /\ Nodes # peer[1].Nodes
    /\ Len(logs) = 4
    /\ logs[1].run_id # logs[2].run_id
    /\ logs[2].run_id # logs[3].run_id

----------------------------------------------------------------------------
(* C21 - C30 *)

\* The linear two-node flow: set_data nodes 1 and 2 joined by the edge
\* (1:output -> 2:input), run to completion.
LinearSetDataFlowCompleted ==
    /\ DOMAIN Nodes = {1, 2}
    /\ Nodes[1].type = "set_data" /\ Nodes[2].type = "set_data"
    /\ Edges = << [ source |-> 1, target |-> 2,
                    source_handle |-> "output", target_handle |-> "input" ] >>
    /\ pc = "done" /\ ret = ""

\* C22 as stated: in the linear two-node flow the output map recorded for the
\* second node equals the first node's `data`.
C22_OutputOfBIsDataOfA ==
    LinearSetDataFlowCompleted => nodeOutputs[2] = Nodes[1].data

\* C22: in the linear two-node flow the run completes, the first node's log
\* precedes the second's, the output map recorded for the second node is the
\* second node's own `data`, and the first node's output reaches the second
\* only as its input.
C22_OutputOfBIsDataOfB ==
    LinearSetDataFlowCompleted =>
        /\ run[RunID].status = "completed"
        /\ Len(logs) = 2 /\ logs[1].node_id = 1 /\ logs[2].node_id = 2
        /\ nodeOutputs[1] = Nodes[1].data
        /\ nodeOutputs[2] = Nodes[2].data
        /\ 2 \in DOMAIN inputs /\ "input" \in DOMAIN inputs[2]

\* The flow has completed with different `data` on the two nodes.
C22_Witness ==
    /\ LinearSetDataFlowCompleted
    /\ Nodes[1].data # Nodes[2].data
    /\ nodeOutputs[2] = Nodes[2].data

\* Execute is aborting or has aborted the run: processNode has returned an
\* error, or failRun has written failed.
Aborted == pc = "failing" \/ "failed" \in SeqToSet(runWrites)

\* C23: from the moment processNode has returned an error, and after the
\* run's transition to failed, no step pops a node, creates or updates a log
\* row, or adds to nodeOutputs; the work list keeps what it held.
C23_NothingAfterAbort ==
    [][Aborted => UNCHANGED << queue, visited, logs, nodeOutputs, cur, inputs, results >>]_vars

\* Execute has returned after a hard failure while the work list still holds
\* a node that was never processed.
C23_Witness ==
    /\ pc = "done"
    /\ ret \notin { "", "node execution failed" }
    /\ "failed" \in SeqToSet(runWrites)
    /\ \E i \in DOMAIN queue :
          queue[i] \in DOMAIN Nodes /\ queue[i] \notin visited /\ LogsOf(queue[i]) = {}

\* The ids Execute has popped that are not in the engine's node map.
DanglingPopped == visited \ DOMAIN Nodes

\* C30: when a popped id is not in the node map, processNode returns the
\* node-not-found error before creating a log row for it, Execute sets the run
\* to failed and returns that error, and the nodes still in the work list are
\* never processed.
C30_DanglingEdgeAborts ==
    \A d \in DanglingPopped :
        /\ pc \in { "failing", "done" }
        /\ err = "node not found"
        /\ LogsOf(d) = {}
        /\ d \notin DOMAIN nodeOutputs
        /\ pc = "done" => ret = "node not found" /\ run[RunID].status = "failed"
                          /\ run[RunID].finished_at # NULL
        /\ \A i \in DOMAIN queue :
              queue[i] \notin visited
                  => LogsOf(queue[i]) = {} /\ queue[i] \notin DOMAIN nodeOutputs
        /\ \A n \in visited \ {d} : n \in DOMAIN Nodes

\* Execute has returned node-not-found on a dangling edge while a node reached
\* over another edge was still waiting in the work list.
C30_Witness ==
    /\ pc = "done"
    /\ ret = "node not found"
    /\ DanglingPopped # {}
    /\ run[RunID].status = "failed"
    /\ \E i \in DOMAIN queue : queue[i] \in DOMAIN Nodes /\ queue[i] \notin visited

\* The call has returned this result.
WaitReturned(status, handle) ==
    /\ pc = "wait.returned"
    /\ results[1].status = status
    /\ results[1].handle = handle

\* C24: a call of the wait executor whose input parses returns one outcome,
\* completed on "output" with a nil error after the timer of the configured
\* duration has fired, or cancelled with the context's error after the context
\* was cancelled; and when the context was cancelled while the timer had not
\* fired, the call has not returned completed.
C24_WaitRacesTimerAndCancel ==
    (pc = "wait.returned" /\ ~UnmarshalFails(Nodes[1])) =>
        /\ \/ /\ WaitReturned("completed", "output") /\ results[1].err = ""
              /\ timerFired /\ now >= 1 + WaitDuration(Nodes[1])
           \/ /\ WaitReturned("cancelled", "") /\ results[1].err # ""
              /\ ctxDone
        /\ cancelledFirst => results[1].status # "completed"

\* a sorts before b: b continues a, or at the first place they differ a has
\* the smaller character.
LexLess(a, b) ==
    \E k \in 1..(Len(b)) :
        /\ k <= Len(a) + 1
        /\ \A j \in 1..(k - 1) : a[j] = b[j]
        /\ k = Len(a) + 1 \/ a[k] < b[k]

\* v1 is below v2: as numbers when both are numbers, else by their string forms.
Below(v1, v2) ==
    IF v1.kind = "number" /\ v2.kind = "number"
    THEN v1.n < v2.n
    ELSE LexLess(Sprintf(v1), Sprintf(v2))

\* The reference result of a known operator.
ReferenceResult(v1, operator, v2) ==
    CASE operator = ">"  -> Below(v2, v1)
      [] operator = "<"  -> Below(v1, v2)
      [] operator = ">=" -> ~Below(v1, v2)
      [] operator = "<=" -> ~Below(v2, v1)
      [] operator = "==" -> v1 = v2
      [] operator = "!=" -> v1 # v2

\* C25: for every pair of operands and every known operator the executor
\* completes with the reference result and the matching handle; any other
\* operator returns a non-nil error and no triggered handle.
C25_ConditionMatchesReference ==
    \A i \in DOMAIN results :
        IF Nodes[i].operator \in ConditionOperators
        THEN /\ results[i].status = "completed"
             /\ results[i].err = ""
             /\ results[i].output =
                  [result |-> ReferenceResult(Nodes[i].value1, Nodes[i].operator, Nodes[i].value2)]
             /\ results[i].handle =
                  IF ReferenceResult(Nodes[i].value1, Nodes[i].operator, Nodes[i].value2)
                  THEN "output_true" ELSE "output_false"
        ELSE results[i].err # "" /\ results[i].handle = ""

\* The result of the call with the i-th operator.
ResultOf(i) == results[i].output.result

\* All six known operators have been evaluated on the pair of operands.
AllEvaluated == \A i \in 1..6 : i \in DOMAIN results

NumberOrString(v) == v.kind \in { "number", "string" }

\* The three relations between the operators' results.
OperatorsConsistent ==
    /\ ResultOf(5) <=> (ResultOf(3) \/ ResultOf(1))
    /\ ResultOf(6) <=> (ResultOf(4) \/ ResultOf(1))
    /\ ResultOf(2) <=> ~ResultOf(1)

\* C29 as stated: for every pair of operands drawn from numbers and strings,
\* >= holds iff > or == holds, <= holds iff < or == holds, and != is the
\* negation of ==.
C29_OperatorsConsistent ==
    (AllEvaluated /\ NumberOrString(Nodes[1].value1) /\ NumberOrString(Nodes[1].value2))
        => OperatorsConsistent

\* C29: for every pair of operands that are both numbers or both strings the
\* three relations hold; for every pair of numbers and strings != is the
\* negation of ==, > implies >= and < implies <=.
C29_OperatorsConsistentSameKind ==
    (AllEvaluated /\ NumberOrString(Nodes[1].value1) /\ NumberOrString(Nodes[1].value2))
        => /\ Nodes[1].value1.kind = Nodes[1].value2.kind => OperatorsConsistent
           /\ ResultOf(2) <=> ~ResultOf(1)
           /\ ResultOf(3) => ResultOf(5)
           /\ ResultOf(4) => ResultOf(6)
           /\ ResultOf(1) => ResultOf(5) /\ ResultOf(6)

\* The six operators have been evaluated on two equal strings: >= and <= hold
\* through ==.
C29_Witness ==
    /\ AllEvaluated
    /\ Nodes[1].value1.kind = "string" /\ Nodes[1].value1 = Nodes[1].value2
    /\ ResultOf(1) /\ ResultOf(5) /\ ResultOf(6) /\ ~ResultOf(3)

\* The loop nodes that have been executed.
LoopsExecuted == { n \in DOMAIN results : Nodes[n].type = "loop" }

\* The items array of loop node n, as toSlice reads it from the node data.
ItemsOf(n) == toSlice(Field(Nodes[n], "items")).items

BothExecuted == peer # << >> /\ peer[1].pc = "done" /\ pc = "done"

\* C28: when a workflow with deterministic executors has been executed twice,
\* the two executions have executed the same nodes and have handed every node
\* the same input.
C28_SameNodesSameInputs ==
    BothExecuted =>
        /\ DOMAIN results = DOMAIN peer[1].results
        /\ inputs = peer[1].inputs

\* C27: once the row of the run holds a terminal status, no step of Execute
\* and no call of the status endpoint changes its status or its finished_at.
C27_TerminalStatusKept ==
    [][ (run # << >> /\ run[1].status \in RunTerminal) =>
            /\ run'[1].status = run[1].status
            /\ run'[1].finished_at = run[1].finished_at ]_vars

\* C21: the source node and the target node of every stored edge are stored
\* nodes of the workflow the edge belongs to.
C21_EdgesReferenceOwnNodes ==
    \A e \in DOMAIN workflow_edges :
        /\ workflow_edges[e].source_node_id \in DOMAIN workflow_nodes
        /\ workflow_edges[e].target_node_id \in DOMAIN workflow_nodes
        /\ workflow_nodes[workflow_edges[e].source_node_id].workflow_id
               = workflow_edges[e].workflow_id
        /\ workflow_nodes[workflow_edges[e].target_node_id].workflow_id
               = workflow_edges[e].workflow_id

====
